---- MODULE Spec2Model ----
(***************************************************************************)
(* Resizer (Win32 + FFmpeg): the size-budgeted transcode run started by    *)
(* the "Start Processing" button, modelled from src/Resizer/main.cpp.      *)
(*                                                                         *)
(* Times.  The program keeps seconds in doubles.  The model keeps every    *)
(* time on a grid of 1/SecDen seconds and every stream time base with a    *)
(* power-of-two denominator, so each double product and comparison of the  *)
(* code (pts * av_q2d(tb) against start/end seconds) is exact in IEEE      *)
(* arithmetic and is computed here with integers.                          *)
(***************************************************************************)
EXTENDS Integers, Sequences, FiniteSets, TLC

\* ------------------------------------------------------------------------
\* Bounds of the model
\* ------------------------------------------------------------------------
\* Frames the encoder keeps buffered before it emits its first packet.
EncDelay == 1

\* Largest time (in 1/SecDen s) that is typed into the Start / End edits.
MaxEdit == 160

\* Mid-stream library calls (decode, encode, write) that fail in one run.
MaxMidFail == 1

\* Messages of the player (toggle, step, seek bar, closing the window) that
\* WndProc handles in one session.
MaxCmds == 2

\* ------------------------------------------------------------------------
\* Units and library constants
\* ------------------------------------------------------------------------
\* start_seconds / end_seconds / g_duration are multiples of 1/SecDen s.
SecDen == 8

AV_TIME_BASE == 1000000

\* AV_NOPTS_VALUE is INT64_MIN in libavutil; any value below every real
\* timestamp behaves the same in the comparisons of the code.
AV_NOPTS_VALUE == 0 - 1048576

Null == "null"

\* ------------------------------------------------------------------------
\* Rational-timestamp arithmetic (libavutil, as called by the program)
\* ------------------------------------------------------------------------
Abs(x) == IF x < 0 THEN 0 - x ELSE x

Max(a, b) == IF a >= b THEN a ELSE b

\* C++ integer division truncates toward zero.
TruncDiv(a, b) ==
    IF (a >= 0) = (b > 0) THEN Abs(a) \div Abs(b) ELSE 0 - (Abs(a) \div Abs(b))

\* Variant: a*b/c rounded down.
AvRescaleDown(a, b, c) == (a * b) \div c

\* av_rescale_rnd(a, b, c, AV_ROUND_NEAR_INF): a*b/c rounded to nearest,
\* halves away from zero.
AvRescale(a, b, c) ==
    IF a >= 0 THEN (a * b + (c \div 2)) \div c
    ELSE 0 - ((((0 - a) * b) + (c \div 2)) \div c)

\* av_rescale_q(a, bq, cq) with bq = bn/bd and cq = cn/cd.
AvRescaleQ(a, bn, bd, cn, cd) == AvRescale(a, bn * cd, cn * bd)

\* av_packet_rescale_ts leaves AV_NOPTS_VALUE alone.
RescaleTs(ts, bn, bd, cn, cd) ==
    IF ts = AV_NOPTS_VALUE THEN ts ELSE AvRescaleQ(ts, bn, bd, cn, cd)

\* pts * av_q2d(num/den) compared with a time of tE/SecDen seconds.
TimeLT(pts, num, den, tE) == pts * num * SecDen < tE * den

TimeGT(pts, num, den, tE) == pts * num * SecDen > tE * den

\* llround(seconds * AV_TIME_BASE) for a time on the grid.
StartAv(tE) == tE * (AV_TIME_BASE \div SecDen)

\* ------------------------------------------------------------------------
\* Source files that can be dropped on the window
\* ------------------------------------------------------------------------
V(p, k)  == [st |-> "v", pts |-> p, dts |-> p, key |-> k]

A(p, d)  == [st |-> "a", pts |-> p, dts |-> d, key |-> TRUE]

Other(p) == [st |-> "o", pts |-> p, dts |-> p, key |-> TRUE]

\* 1920x1080, 100 s, variable frame rate; the packets around 10 s .. 20 s.
\* video time base 1/4, audio time base 1/8, declared frame rate 1/1.
SrcHD ==
    [name |-> "hd", width |-> 1920, height |-> 1080, durE |-> 800,
     vtb |-> <<1, 4>>, atb |-> <<1, 8>>, fps |-> <<1, 1>>,
     hasVideo |-> TRUE, hasAudio |-> TRUE, nofile |-> FALSE,
     corrupt |-> {},
     muxV |-> <<1, 16>>, muxA |-> <<1, 8>>,
     pkts |-> << V(0, TRUE), A(72, 72), V(36, FALSE), A(80, 80), V(40, TRUE),
                 V(60, FALSE), A(120, 120), V(80, FALSE), A(160, 160),
                 V(84, FALSE), A(168, 168), A(150, 150) >>]

\* 7x5, 2.5 s, 2 frames per second; audio packets with missing timestamps,
\* a packet of a third stream; the muxer picks a coarser audio time base.
SrcOdd ==
    [name |-> "odd", width |-> 7, height |-> 5, durE |-> 20,
     vtb |-> <<1, 4>>, atb |-> <<1, 8>>, fps |-> <<2, 1>>,
     hasVideo |-> TRUE, hasAudio |-> TRUE, nofile |-> FALSE,
     corrupt |-> {},
     muxV |-> <<1, 2>>, muxA |-> <<1, 4>>,
     pkts |-> << V(0, TRUE), A(AV_NOPTS_VALUE, 1), V(2, FALSE), Other(3),
                 A(5, AV_NOPTS_VALUE), V(4, TRUE),
                 A(AV_NOPTS_VALUE, AV_NOPTS_VALUE), V(6, FALSE), A(13, 11),
                 V(8, FALSE), A(17, 17) >>]

\* 640x360, no audio, container duration unknown (g_duration = 0.0);
\* the output muxer has AVFMT_NOFILE set.
SrcNoDur ==
    [name |-> "nodur", width |-> 640, height |-> 360, durE |-> 0,
     vtb |-> <<1, 4>>, atb |-> <<1, 8>>, fps |-> <<4, 1>>,
     hasVideo |-> TRUE, hasAudio |-> FALSE, nofile |-> TRUE,
     corrupt |-> {},
     muxV |-> <<1, 4>>, muxA |-> <<1, 8>>,
     pkts |-> << V(0, TRUE), V(1, FALSE), V(2, FALSE) >>]

\* 320x240, half a second long.
SrcShort ==
    [name |-> "short", width |-> 320, height |-> 240, durE |-> 4,
     vtb |-> <<1, 4>>, atb |-> <<1, 8>>, fps |-> <<4, 1>>,
     hasVideo |-> TRUE, hasAudio |-> FALSE, nofile |-> FALSE,
     corrupt |-> {},
     muxV |-> <<1, 4>>, muxA |-> <<1, 8>>,
     pkts |-> << V(0, TRUE), V(1, FALSE), V(2, FALSE) >>]

\* 320x240, one second long, four frames; the third video packet is damaged:
\* avcodec_send_packet fails on it every time it is read.
SrcBad ==
    [name |-> "bad", width |-> 320, height |-> 240, durE |-> 8,
     vtb |-> <<1, 4>>, atb |-> <<1, 8>>, fps |-> <<4, 1>>,
     hasVideo |-> TRUE, hasAudio |-> FALSE, nofile |-> FALSE,
     corrupt |-> {3},
     muxV |-> <<1, 4>>, muxA |-> <<1, 8>>,
     pkts |-> << V(0, TRUE), V(1, FALSE), V(2, FALSE), V(3, FALSE) >>]

Sources == {SrcHD, SrcOdd, SrcNoDur, SrcShort}

\* The files the player is exercised with.
PlaySources == {SrcOdd, SrcNoDur, SrcShort, SrcBad}

\* Text of the "Target size (MB)" edit as a decimal num/den (as _wtof
\* reads it): 0, 0.0000001, 0.3, 5.
Sizes == {<<0, 1>>, <<1, 10000000>>, <<3, 10>>, <<5, 1>>}

\* Text of the Start / End edits, in 1/SecDen s: 0, 0.5, 0.625, 1.5, 2.5,
\* 10, 20 seconds.
EditTimes == {t \in {0, 4, 5, 12, 20, 80, 160} : t <= MaxEdit}

\* The checked radio of the scale group (exactly one is checked once a file
\* is loaded): Full, Half, Quarter as the divisor it selects.
ScaleRadios == {1, 2, 4}

\* ------------------------------------------------------------------------
\* State
\* ------------------------------------------------------------------------
VARIABLES
    src,              \* loaded file: g_inputPath, g_vidWidth/Height, g_duration
    calc,             \* arguments, locals and result of the function being evaluated
    pc,               \* position of the UI thread in the Start button handler
    req,              \* arguments of the running TranscodeWithSizeAndScale call
    uiMessage,        \* the message box the handler showed last
    target_bitrate,
    host,             \* encoders of the FFmpeg build and the machine
    video_encoder,    \* name of the selected encoder
    enc,              \* fields set on enc_ctx
    opened,           \* handles currently held (non-null)
    acquired,         \* every handle that was ever opened in this run
    released,         \* handle -> number of times it was released
    audio_on,         \* audio_in_stream != nullptr
    video_start_pts,
    audio_start_pts,
    rd,               \* demuxer position: index of the next packet of the file
    encq,             \* frames buffered inside the encoder
    rcvd,             \* frames received from the decoder, in order
    sent,             \* frames handed to avcodec_send_frame, in order
    vout,             \* video packets written to the output
    aread,            \* packets that entered the audio branch, in order
    aout,             \* audio packets written to the output
    midFail,          \* mid-stream calls that failed in this run
    header_written,
    flushed,
    trailer_written,
    success,          \* the local `success`
    result,           \* value returned to the handler: none, success, failure
    g_hPlaybackThread,       \* the thread handle is non-null
    g_playThreadShouldExit,
    g_isPlaying,
    g_seekRequested,
    g_seekTargetMs,
    g_currentPosMs,
    g_decodeSingleFrame,
    g_stepDir,
    g_hFrameBitmap,   \* the published bitmap, named by the time of its frame
    g_csState,        \* owner of the critical section: "free", "ui", "thread"
    slotReleased,     \* DeleteObject was called on the handle g_hFrameBitmap holds
    upc,              \* position of the UI thread in a playback handler
    ucmd,             \* locals of the playback handler that is running
    ncmd,             \* playback commands handled so far
    tpc,              \* position of the decode thread in PlaybackThreadProc
    nThreads,         \* decode threads that are alive
    dec,              \* locals of PlaybackThreadProc
    hCalls,           \* history: the last SeekMs calls, and the seeks since
    hLastSeek,        \* history: target of the last seek done for a request
    stepRec,          \* history: the step command begun last, if begun quiet
    hScan,            \* history: the scan that ended since the last command
    hEof,             \* history: continuous playback met the end of stream
    stopTimedOut      \* history: the wait in StopPlayback ended by timeout

vars == << src, calc, pc, req, uiMessage, target_bitrate, host, video_encoder, enc,
           opened, acquired, released, audio_on, video_start_pts,
           audio_start_pts, rd, encq, rcvd, sent, vout, aread, aout, midFail,
           header_written, flushed, trailer_written, success, result,
           g_hPlaybackThread, g_playThreadShouldExit, g_isPlaying,
           g_seekRequested, g_seekTargetMs, g_currentPosMs,
           g_decodeSingleFrame, g_stepDir, g_hFrameBitmap, g_csState,
           slotReleased, upc, ucmd, ncmd,
           tpc, nThreads, dec, hCalls, hLastSeek, stepRec, hScan,
           hEof, stopTimedOut >>

\* Variables of one transcode run, apart from pc.
runVars == << req, target_bitrate, host, video_encoder, enc, opened, acquired,
              released, audio_on, video_start_pts, audio_start_pts, rd, encq,
              rcvd, sent, vout, aread, aout, midFail, header_written, flushed,
              trailer_written, success, result >>

Handles == {"in_fmt_ctx", "dec_ctx", "out_fmt_ctx", "enc_ctx", "pb", "frame",
            "filt_frame", "pkt", "enc_pkt", "sws_ctx"}

NoReq == [size |-> <<0, 1>>, scale |-> 1, startE |-> 0, endE |-> 0]

NoHost == [hw |-> "unknown", sw |-> FALSE]

\* Locals of TranscodeWithSizeAndScale as declared at its top.
RunInit ==
    /\ req = NoReq
    /\ target_bitrate = 0
    /\ host = NoHost
    /\ video_encoder = Null
    /\ enc = Null
    /\ opened = {}
    /\ acquired = {}
    /\ released = [h \in Handles |-> 0]
    /\ audio_on = FALSE
    /\ video_start_pts = 0
    /\ audio_start_pts = 0
    /\ rd = 1
    /\ encq = << >>
    /\ rcvd = << >>
    /\ sent = << >>
    /\ vout = << >>
    /\ aread = << >>
    /\ aout = << >>
    /\ midFail = {}
    /\ header_written = FALSE
    /\ flushed = FALSE
    /\ trailer_written = FALSE
    /\ success = FALSE
    /\ result = "none"

\* The same values for the next call.
RunReset ==
    /\ req' = NoReq
    /\ target_bitrate' = 0
    /\ host' = NoHost
    /\ video_encoder' = Null
    /\ enc' = Null
    /\ opened' = {}
    /\ acquired' = {}
    /\ released' = [h \in Handles |-> 0]
    /\ audio_on' = FALSE
    /\ video_start_pts' = 0
    /\ audio_start_pts' = 0
    /\ rd' = 1
    /\ encq' = << >>
    /\ rcvd' = << >>
    /\ sent' = << >>
    /\ vout' = << >>
    /\ aread' = << >>
    /\ aout' = << >>
    /\ midFail' = {}
    /\ header_written' = FALSE
    /\ flushed' = FALSE
    /\ trailer_written' = FALSE
    /\ success' = FALSE
    /\ result' = "none"

\* Shared playback globals (main.cpp lines 88-98).
sharedVars == << g_hPlaybackThread, g_playThreadShouldExit, g_isPlaying,
                 g_seekRequested, g_seekTargetMs, g_currentPosMs,
                 g_decodeSingleFrame, g_stepDir, g_hFrameBitmap, g_csState,
                 slotReleased >>

\* The published frame, its lock (g_csState, line 84), and whether the handle
\* in the slot has been passed to DeleteObject.
frameVars == << g_hFrameBitmap, g_csState, slotReleased >>

uiPlayVars == << upc, ucmd, ncmd >>

threadVars == << tpc, nThreads, dec >>

histVars == << hCalls, hLastSeek, stepRec, hScan, hEof, stopTimedOut >>

playVars == << sharedVars, uiPlayVars, threadVars, histVars >>

\* g_hFrameBitmap == nullptr, and the bitmap ExtractMiddleFrameBitmap made.
NoBitmap == 0 - 1

PreviewBitmap == 0 - 2

NoCmd == [kind |-> "none", dir |-> 0, ms |-> 0, single |-> FALSE,
          quiet |-> FALSE]

\* What a decode thread owns: its context object and the locals of lines
\* 757-766 that hold an allocation.
ThreadResources ==
    {"ctx", "fmt_ctx", "dec_ctx", "sws_ctx", "frame", "rgbFrame", "rgbBuffer",
     "pkt"}

\* No file: what ctx->path names before a thread is begun.
NoFile ==
    [name |-> "", width |-> 0, height |-> 0, durE |-> 0,
     vtb |-> <<1, 1>>, atb |-> <<1, 1>>, fps |-> <<1, 1>>,
     hasVideo |-> FALSE, hasAudio |-> FALSE, nofile |-> FALSE,
     corrupt |-> {},
     muxV |-> <<1, 1>>, muxA |-> <<1, 1>>,
     pkts |-> << >>]

\* Locals of PlaybackThreadProc before the thread runs; `held` are the
\* resources it owns, `freed` counts the releases of each, `file` is the
\* file named by ctx->path, which the thread opens and reads.
NoDec == [rd |-> 1, file |-> NoFile, target |-> 0, targetMs |-> 0, bestMs |-> 0 - 1,
          bestBmp |-> NoBitmap, produced |-> FALSE, pendBmp |-> NoBitmap,
          pendPos |-> 0, failed |-> FALSE, eof |-> FALSE,
          scanned |-> << >>, cands |-> {}, held |-> {"ctx"},
          freed |-> [r \in ThreadResources |-> 0]]

NoStep == [dir |-> 0, from |-> 0]

NoScan == [state |-> "none", sought |-> << >>, target |-> 0, produced |-> FALSE, failed |-> FALSE,
           eof |-> FALSE, scanned |-> << >>, bmp |-> NoBitmap, pos |-> 0 - 1,
           posted |-> FALSE]

\* The player right after WM_DROPFILES accepted a file (lines 398-419),
\* apart from the preview bitmap.
PlayerReset ==
    /\ g_hPlaybackThread = FALSE
    /\ g_playThreadShouldExit = FALSE
    /\ g_isPlaying = FALSE
    /\ g_seekRequested = FALSE
    /\ g_seekTargetMs = 0
    /\ g_currentPosMs = 0
    /\ g_decodeSingleFrame = FALSE
    /\ g_stepDir = 0
    /\ g_csState = "free"
    /\ slotReleased = FALSE
    /\ upc = "idle"
    /\ ucmd = NoCmd
    /\ ncmd = 0
    /\ tpc = "none"
    /\ nThreads = 0
    /\ dec = NoDec
    /\ hCalls = << >>
    /\ hLastSeek = 0 - 1
    /\ stepRec = NoStep
    /\ hScan = NoScan
    /\ hEof = FALSE
    /\ stopTimedOut = FALSE

\* The player right after WM_DROPFILES accepted a file: the slot holds the
\* preview bitmap.
PlayerInit ==
    /\ PlayerReset
    /\ g_hFrameBitmap = PreviewBitmap

\* A file was dropped and probed; the Start button is enabled.
\* No function is being evaluated.
NoCalc == [fn |-> "none"]

Init ==
    /\ src \in Sources
    /\ calc = NoCalc
    /\ pc = "idle"
    /\ uiMessage = Null
    /\ RunInit
    /\ PlayerInit

uiVars == << src, calc, uiMessage >>

budgetVars == << req, target_bitrate >>

encVars == << host, video_encoder, enc >>

resVars == << opened, acquired, released >>

seekVars == << audio_on, video_start_pts, audio_start_pts, rd >>

loopVars == << encq, rcvd, sent, vout, aread, aout, midFail >>

endVars == << header_written, flushed, trailer_written, success, result >>

\* ------------------------------------------------------------------------
\* Budget (TranscodeWithSizeAndScale, lines 1142-1150)
\* ------------------------------------------------------------------------
\* (int64_t)(target_size_mb * 8.0 * 1024.0 * 1024.0)
TotalBits(size) == TruncDiv(size[1] * 8388608, size[2])

\* Variant: the 5% reserve is not taken off.
VideoBitsAll(total) == total

\* (int64_t)(total_bits * 0.95): trunc(total * 95 / 100), split so that the
\* product stays small.
VideoBits(total) == (total \div 100) * 95 + ((total % 100) * 95) \div 100

\* (int64_t)segment_duration
WholeSeconds(dE) == dE \div SecDen

\* video_bits / (int64_t)segment_duration, for a non-zero divisor.
ComputeBitrate(size, dE) == TruncDiv(VideoBits(TotalBits(size)), WholeSeconds(dE))

\* if (end_seconds <= start_seconds) return false;
RangeRejected(startE, endE) == endE <= startE

\* Variant: only a negative bitrate is rejected.
BudgetRejectedStrict(b) == b < 0

\* if (target_bitrate <= 0) return false;
BudgetRejected(b) == b <= 0

\* Outcomes of the integer division by zero in line 1148 (undefined
\* behaviour): the x86/x64 idiv traps and ends the process; the ARM64 sdiv
\* yields 0.
DivByZeroOutcomes == {"trap", "zero"}

\* ------------------------------------------------------------------------
\* Start Processing button (WndProc, WM_COMMAND / IDC_START_BUTTON)
\* ------------------------------------------------------------------------
StartButton ==
    /\ pc = "idle"
    /\ UNCHANGED playVars
    /\ \E size \in Sizes, custom \in BOOLEAN, s \in EditTimes, e \in EditTimes,
          scale \in ScaleRadios :
          IF size[1] <= 0
          THEN /\ uiMessage' = "size"
               /\ UNCHANGED << src, calc, pc, runVars >>
          ELSE IF custom /\ (s < 0 \/ e <= s \/ e > src.durE)
          THEN /\ uiMessage' = "range"
               /\ UNCHANGED << src, calc, pc, runVars >>
          ELSE /\ req' = [size |-> size, scale |-> scale,
                          startE |-> IF custom THEN s ELSE 0,
                          endE |-> IF custom THEN e ELSE src.durE]
               /\ uiMessage' = Null
               /\ pc' = "validate"
               /\ UNCHANGED << src, calc, target_bitrate, encVars, resVars,
                               seekVars, loopVars, endVars >>

\* Entry checks and bitrate budget of TranscodeWithSizeAndScale.
Validate ==
    /\ pc = "validate"
    /\ UNCHANGED playVars
    /\ UNCHANGED << uiVars, req, encVars, resVars, seekVars, loopVars,
                    header_written, flushed, trailer_written, success >>
    /\ IF RangeRejected(req.startE, req.endE) \/ req.endE - req.startE <= 0
       THEN /\ result' = "failure"
            /\ pc' = "returned"
            /\ UNCHANGED target_bitrate
       ELSE IF WholeSeconds(req.endE - req.startE) = 0
       THEN \E o \in DivByZeroOutcomes :
               IF o = "trap"
               THEN /\ pc' = "fault"
                    /\ UNCHANGED << target_bitrate, result >>
               ELSE /\ target_bitrate' = 0
                    /\ IF BudgetRejected(0)
                       THEN result' = "failure" /\ pc' = "returned"
                       ELSE result' = result /\ pc' = "open_input"
       ELSE LET b == ComputeBitrate(req.size, req.endE - req.startE) IN
            /\ target_bitrate' = b
            /\ IF BudgetRejected(b)
               THEN result' = "failure" /\ pc' = "returned"
               ELSE result' = result /\ pc' = "open_input"

\* ------------------------------------------------------------------------
\* Opening the input, the codecs and the output (lines 1152-1206)
\* ------------------------------------------------------------------------
\* A handle becomes non-null.
Acquire(hs) ==
    /\ opened' = opened \cup hs
    /\ acquired' = acquired \cup hs
    /\ UNCHANGED released

\* avformat_open_input
OpenInput ==
    /\ pc = "open_input"
    /\ UNCHANGED playVars
    /\ UNCHANGED << uiVars, budgetVars, encVars, seekVars, loopVars, endVars >>
    /\ \E ok \in BOOLEAN :
          IF ok
          THEN Acquire({"in_fmt_ctx"}) /\ pc' = "find_streams"
          ELSE UNCHANGED resVars /\ pc' = "cleanup"

\* avformat_find_stream_info and the stream loop
FindStreams ==
    /\ pc = "find_streams"
    /\ UNCHANGED playVars
    /\ UNCHANGED << uiVars, budgetVars, encVars, resVars, video_start_pts,
                    audio_start_pts, rd, loopVars, endVars >>
    /\ \E ok \in BOOLEAN :
          IF ok /\ src.hasVideo
          THEN audio_on' = src.hasAudio /\ pc' = "open_decoder"
          ELSE UNCHANGED audio_on /\ pc' = "cleanup"

\* avcodec_find_decoder .. avcodec_open2(dec_ctx)
OpenDecoder ==
    /\ pc = "open_decoder"
    /\ UNCHANGED playVars
    /\ UNCHANGED << uiVars, budgetVars, encVars, seekVars, loopVars, endVars >>
    /\ \E o \in {"ok", "nodecoder", "openfail"} :
          CASE o = "nodecoder" -> UNCHANGED resVars /\ pc' = "cleanup"
            [] o = "openfail"  -> Acquire({"dec_ctx"}) /\ pc' = "cleanup"
            [] o = "ok"        -> Acquire({"dec_ctx"}) /\ pc' = "alloc_output"

\* avformat_alloc_output_context2
AllocOutput ==
    /\ pc = "alloc_output"
    /\ UNCHANGED playVars
    /\ UNCHANGED << uiVars, budgetVars, encVars, seekVars, loopVars, endVars >>
    /\ \E ok \in BOOLEAN :
          IF ok
          THEN Acquire({"out_fmt_ctx"}) /\ pc' = "select_encoder"
          ELSE UNCHANGED resVars /\ pc' = "cleanup"

\* What the machine offers: the NVENC encoder is not part of the FFmpeg
\* build ("absent"), is part of the build but has no usable device
\* ("nodevice"), or works ("ready"); a software H.264 encoder exists or not.
Hosts ==
    {[hw |-> "absent", sw |-> FALSE], [hw |-> "absent", sw |-> TRUE],
     [hw |-> "nodevice", sw |-> TRUE], [hw |-> "ready", sw |-> TRUE]}

\* avcodec_find_encoder_by_name("h264_nvenc"), else
\* avcodec_find_encoder(AV_CODEC_ID_H264)
FindEncoder(h) ==
    IF h.hw # "absent" THEN "h264_nvenc"
    ELSE IF h.sw THEN "libx264"
    ELSE Null

SelectEncoder ==
    /\ pc = "select_encoder"
    /\ UNCHANGED playVars
    /\ UNCHANGED << uiVars, budgetVars, enc, resVars, seekVars, loopVars,
                    endVars >>
    /\ \E h \in Hosts :
          /\ host' = h
          /\ video_encoder' = FindEncoder(h)
          /\ pc' = IF FindEncoder(h) = Null THEN "cleanup" ELSE "setup_encoder"

\* Variant: the division rounds up.
EncDimCeil(orig, scale_factor) == (orig + scale_factor - 1) \div scale_factor

\* enc_ctx->width = orig_w / scale_factor (and the same for the height)
EncDim(orig, scale_factor) == TruncDiv(orig, scale_factor)

\* The fields written to enc_ctx in lines 1180-1188.
EncConfig ==
    [name |-> video_encoder,
     width |-> EncDim(src.width, req.scale),
     height |-> EncDim(src.height, req.scale),
     pix_fmt |-> IF video_encoder = "h264_nvenc" THEN "NV12" ELSE "YUV420P",
     time_base |-> << src.fps[2], src.fps[1] >>,
     bit_rate |-> target_bitrate,
     rc_max_rate |-> target_bitrate,
     rc_buffer_size |-> target_bitrate]

\* avcodec_open2(enc_ctx) can succeed on this machine.
EncoderOpens == ~(video_encoder = "h264_nvenc" /\ host.hw = "nodevice")

\* avformat_new_stream .. avcodec_parameters_from_context
SetupEncoder ==
    /\ pc = "setup_encoder"
    /\ UNCHANGED playVars
    /\ UNCHANGED << uiVars, budgetVars, host, video_encoder, seekVars,
                    loopVars, endVars >>
    /\ \E o \in {"ok", "noalloc", "openfail"} :
          CASE o = "noalloc" ->
                 UNCHANGED << enc, resVars >> /\ pc' = "cleanup"
            [] o = "openfail" ->
                 Acquire({"enc_ctx"}) /\ enc' = EncConfig /\ pc' = "cleanup"
            [] o = "ok" ->
                 /\ Acquire({"enc_ctx"})
                 /\ enc' = EncConfig
                 /\ pc' = IF EncoderOpens THEN "setup_audio" ELSE "cleanup"

\* Audio output stream; a failure only disables audio.
SetupAudio ==
    /\ pc = "setup_audio"
    /\ UNCHANGED playVars
    /\ UNCHANGED << uiVars, budgetVars, encVars, resVars, video_start_pts,
                    audio_start_pts, rd, loopVars, endVars >>
    /\ pc' = "open_output"
    /\ IF audio_on
       THEN \E ok \in BOOLEAN : audio_on' = ok
       ELSE UNCHANGED audio_on

\* avio_open (unless AVFMT_NOFILE) and avformat_write_header
OpenOutput ==
    /\ pc = "open_output"
    /\ UNCHANGED playVars
    /\ UNCHANGED << uiVars, budgetVars, encVars, seekVars, loopVars, flushed,
                    trailer_written, success, result >>
    /\ \E o \in {"ok", "iofail", "hdrfail"} :
          CASE o = "iofail" ->
                 /\ ~src.nofile
                 /\ UNCHANGED << resVars, header_written >>
                 /\ pc' = "cleanup"
            [] o = "hdrfail" ->
                 /\ IF src.nofile THEN UNCHANGED resVars ELSE Acquire({"pb"})
                 /\ UNCHANGED header_written
                 /\ pc' = "cleanup"
            [] o = "ok" ->
                 /\ IF src.nofile THEN UNCHANGED resVars ELSE Acquire({"pb"})
                 /\ header_written' = TRUE
                 /\ pc' = "seek"

\* ------------------------------------------------------------------------
\* Seek to the start of the range (lines 1208-1225)
\* ------------------------------------------------------------------------
\* av_rescale_q(start_av, AV_TIME_BASE_Q, tb)
StartPts(startE, tb) == AvRescaleQ(StartAv(startE), 1, AV_TIME_BASE, tb[1], tb[2])

\* Packets av_seek_frame(.., AVSEEK_FLAG_BACKWARD) can land on: video
\* keyframes at or before the timestamp.
SeekPoints(pkts, ts) ==
    {i \in 1..Len(pkts) : pkts[i].st = "v" /\ pkts[i].key /\ pkts[i].pts <= ts}

SetMax(S) == CHOOSE m \in S : \A x \in S : x <= m

SetMinOf(S) == CHOOSE m \in S : \A x \in S : m <= x

\* Demuxer position after the seek: the last such keyframe.
SeekIndex(pkts, ts) == SetMax(SeekPoints(pkts, ts))

SeekStart ==
    /\ pc = "seek"
    /\ UNCHANGED playVars
    /\ UNCHANGED << uiVars, budgetVars, encVars, resVars, audio_on, loopVars,
                    endVars >>
    /\ LET vts == StartPts(req.startE, src.vtb) IN
       /\ video_start_pts' = vts
       /\ \E ok \in BOOLEAN :
             rd' = IF ok /\ SeekPoints(src.pkts, vts) # {}
                   THEN SeekIndex(src.pkts, vts)
                   ELSE rd
    /\ audio_start_pts' = IF audio_on THEN StartPts(req.startE, src.atb)
                          ELSE audio_start_pts
    /\ pc' = "alloc_frames"

\* av_frame_alloc x2, av_packet_alloc x2: any of them can come back null.
FrameHandles == {"frame", "filt_frame", "pkt", "enc_pkt"}

AllocFrames ==
    /\ pc = "alloc_frames"
    /\ UNCHANGED playVars
    /\ UNCHANGED << uiVars, budgetVars, encVars, seekVars, loopVars, endVars >>
    /\ \E got \in SUBSET FrameHandles :
          /\ Acquire(got)
          /\ pc' = IF got = FrameHandles THEN "init_scaler" ELSE "cleanup"

\* sws_getContext and av_frame_get_buffer
InitScaler ==
    /\ pc = "init_scaler"
    /\ UNCHANGED playVars
    /\ UNCHANGED << uiVars, budgetVars, encVars, seekVars, loopVars, endVars >>
    /\ \E o \in {"ok", "swsfail", "buffail"} :
          CASE o = "swsfail" -> UNCHANGED resVars /\ pc' = "cleanup"
            [] o = "buffail" -> Acquire({"sws_ctx"}) /\ pc' = "cleanup"
            [] o = "ok"      -> Acquire({"sws_ctx"}) /\ pc' = "read"

\* ------------------------------------------------------------------------
\* Demux / decode / encode loop (lines 1242-1294)
\* ------------------------------------------------------------------------
\* Variant: a frame exactly at the end already stops the loop.
PastEndInclusive(in_pts, tb, endE) == ~TimeLT(in_pts, tb[1], tb[2], endE)

\* if (in_time > end_seconds) goto flush_encoder;
PastEnd(in_pts, tb, endE) == TimeGT(in_pts, tb[1], tb[2], endE)

\* if (in_time < start_seconds) continue;
BeforeStart(in_pts, tb, startE) == TimeLT(in_pts, tb[1], tb[2], startE)

\* Variant: the start offset is not subtracted.
RebaseNoShift(in_pts, start_pts) == IF in_pts < 0 THEN 0 ELSE in_pts

\* rel = in_pts - start_pts; if (rel < 0) rel = 0;
Rebase(in_pts, start_pts) == IF in_pts - start_pts < 0 THEN 0 ELSE in_pts - start_pts

\* filt_frame->pts = av_rescale_q(rel_vid_pts, in time base, enc time base)
VideoFramePts(in_pts, start_pts, tb, etb) ==
    AvRescaleQ(Rebase(in_pts, start_pts), tb[1], tb[2], etb[1], etb[2])

\* Packets avcodec_receive_packet hands out once q is buffered: all but the
\* last EncDelay frames.
Emitted(q) == IF Len(q) > EncDelay THEN SubSeq(q, 1, Len(q) - EncDelay) ELSE << >>

Kept(q) == IF Len(q) > EncDelay THEN SubSeq(q, Len(q) - EncDelay + 1, Len(q)) ELSE q

\* av_packet_rescale_ts(enc_pkt, enc time base, video_out_stream->time_base)
VideoPackets(q, etb, otb) ==
    [i \in 1..Len(q) |-> RescaleTs(q[i], etb[1], etb[2], otb[1], otb[2])]

\* A further mid-stream call may fail in this run.
MayFail == Cardinality(midFail) < MaxMidFail

\* Variant: end of stream goes straight to the trailer, without the flush.
ReadEofNoFlush ==
    /\ pc = "read"
    /\ UNCHANGED playVars
    /\ rd > Len(src.pkts)
    /\ pc' = "trailer"
    /\ UNCHANGED << uiVars, budgetVars, encVars, resVars, seekVars, loopVars,
                    endVars >>

\* av_read_frame(in_fmt_ctx, pkt) < 0
ReadEof ==
    /\ pc = "read"
    /\ UNCHANGED playVars
    /\ rd > Len(src.pkts)
    /\ pc' = "flush"
    /\ UNCHANGED << uiVars, budgetVars, encVars, resVars, seekVars, loopVars,
                    endVars >>

\* A packet of a stream that is not transcoded, or audio while it is disabled.
ReadSkip ==
    /\ pc = "read"
    /\ UNCHANGED playVars
    /\ rd <= Len(src.pkts)
    /\ src.pkts[rd].st # "v"
    /\ ~(audio_on /\ src.pkts[rd].st = "a")
    /\ rd' = rd + 1
    /\ UNCHANGED << pc, uiVars, budgetVars, encVars, resVars, audio_on,
                    video_start_pts, audio_start_pts, loopVars, endVars >>

\* A packet of the video stream: decode, filter by range, rebase, encode.
ReadVideo ==
    /\ pc = "read"
    /\ UNCHANGED playVars
    /\ rd <= Len(src.pkts)
    /\ src.pkts[rd].st = "v"
    /\ UNCHANGED << uiVars, budgetVars, encVars, resVars, audio_on,
                    video_start_pts, audio_start_pts, aread, aout, endVars >>
    /\ \E dec_ok \in BOOLEAN, send_ok \in BOOLEAN, write_ok \in BOOLEAN :
          LET in_pts == src.pkts[rd].pts
              ts == VideoFramePts(in_pts, video_start_pts, src.vtb, enc.time_base)
              q == Append(encq, ts)
          IN
          /\ (MayFail \/ (dec_ok /\ send_ok /\ write_ok))
          /\ IF ~dec_ok
             THEN \* avcodec_send_packet < 0: break
                  /\ midFail' = midFail \cup {"send_packet"}
                  /\ pc' = "flush"
                  /\ UNCHANGED << rd, encq, rcvd, sent, vout >>
             ELSE /\ rcvd' = Append(rcvd, in_pts)
                  /\ IF PastEnd(in_pts, src.vtb, req.endE)
                     THEN /\ pc' = "flush"
                          /\ UNCHANGED << rd, encq, sent, vout, midFail >>
                     ELSE IF BeforeStart(in_pts, src.vtb, req.startE)
                     THEN /\ pc' = "read"
                          /\ rd' = rd + 1
                          /\ UNCHANGED << encq, sent, vout, midFail >>
                     ELSE IF ~send_ok
                     THEN \* avcodec_send_frame < 0: leaves the inner loop only
                          /\ sent' = Append(sent, [pts |-> in_pts, ts |-> ts,
                                                   ok |-> FALSE])
                          /\ midFail' = midFail \cup {"send_frame"}
                          /\ pc' = "read"
                          /\ rd' = rd + 1
                          /\ UNCHANGED << encq, vout >>
                     ELSE /\ sent' = Append(sent, [pts |-> in_pts, ts |-> ts,
                                                   ok |-> TRUE])
                          /\ encq' = Kept(q)
                          /\ IF write_ok \/ Emitted(q) = << >>
                             THEN /\ vout' = vout \o VideoPackets(Emitted(q),
                                                 enc.time_base, src.muxV)
                                  /\ UNCHANGED midFail
                             ELSE \* av_interleaved_write_frame < 0, ignored
                                  /\ midFail' = midFail \cup {"write"}
                                  /\ UNCHANGED vout
                          /\ pc' = "read"
                          /\ rd' = rd + 1

\* if (pkt->pts == AV_NOPTS_VALUE && pkt->dts != AV_NOPTS_VALUE) pkt->pts = pkt->dts;
FillPts(p) == IF p.pts = AV_NOPTS_VALUE /\ p.dts # AV_NOPTS_VALUE THEN p.dts ELSE p.pts

\* Variant: a missing dts is left missing.
FillDtsKeep(p) == p.dts

\* if (pkt->dts == AV_NOPTS_VALUE && pkt->pts != AV_NOPTS_VALUE) pkt->dts = pkt->pts;
FillDts(p) ==
    IF p.dts = AV_NOPTS_VALUE /\ FillPts(p) # AV_NOPTS_VALUE THEN FillPts(p) ELSE p.dts

\* aud_in_pts = (pkt->pts != AV_NOPTS_VALUE) ? pkt->pts : pkt->dts;
AudInPts(p) == IF FillPts(p) # AV_NOPTS_VALUE THEN FillPts(p) ELSE FillDts(p)

\* if (aud_time < start_seconds || aud_time > end_seconds) continue;
AudioDropped(p, tb, startE, endE) ==
    \/ TimeLT(AudInPts(p), tb[1], tb[2], startE)
    \/ TimeGT(AudInPts(p), tb[1], tb[2], endE)

\* if (ts != AV_NOPTS_VALUE) { ts -= audio_start_pts; if (ts < 0) ts = 0; }
ShiftTs(ts, start_pts) == IF ts # AV_NOPTS_VALUE THEN Rebase(ts, start_pts) ELSE ts

\* The packet as handed to av_interleaved_write_frame.
AudioPacket(p, start_pts, itb, otb) ==
    [pts |-> RescaleTs(ShiftTs(FillPts(p), start_pts), itb[1], itb[2], otb[1], otb[2]),
     dts |-> RescaleTs(ShiftTs(FillDts(p), start_pts), itb[1], itb[2], otb[1], otb[2])]

\* A packet of the audio stream while audio passthrough is enabled.
ReadAudio ==
    /\ pc = "read"
    /\ UNCHANGED playVars
    /\ rd <= Len(src.pkts)
    /\ audio_on
    /\ src.pkts[rd].st = "a"
    /\ UNCHANGED << pc, uiVars, budgetVars, encVars, resVars, audio_on,
                    video_start_pts, audio_start_pts, encq, rcvd, sent, vout,
                    endVars >>
    /\ rd' = rd + 1
    /\ LET p == src.pkts[rd] IN
       /\ aread' = Append(aread, p)
       /\ IF AudioDropped(p, src.atb, req.startE, req.endE)
          THEN UNCHANGED << aout, midFail >>
          ELSE \E write_ok \in BOOLEAN :
                  /\ (MayFail \/ write_ok)
                  /\ IF write_ok
                     THEN /\ aout' = Append(aout, AudioPacket(p, audio_start_pts,
                                                              src.atb, src.muxA))
                          /\ UNCHANGED midFail
                     ELSE /\ midFail' = midFail \cup {"write"}
                          /\ UNCHANGED aout

\* ------------------------------------------------------------------------
\* flush_encoder, trailer, cleanup (lines 1296-1322)
\* ------------------------------------------------------------------------
\* avcodec_send_frame(enc_ctx, nullptr) and the drain loop
Flush ==
    /\ pc = "flush"
    /\ UNCHANGED playVars
    /\ UNCHANGED << uiVars, budgetVars, encVars, resVars, seekVars, rcvd, sent,
                    aread, aout, header_written, trailer_written, success,
                    result >>
    /\ encq' = << >>
    /\ flushed' = TRUE
    /\ pc' = "trailer"
    /\ \E write_ok \in BOOLEAN :
          /\ (MayFail \/ write_ok)
          /\ IF write_ok \/ encq = << >>
             THEN /\ vout' = vout \o VideoPackets(encq, enc.time_base, src.muxV)
                  /\ UNCHANGED midFail
             ELSE /\ midFail' = midFail \cup {"write"}
                  /\ UNCHANGED vout

\* av_write_trailer(out_fmt_ctx); success = true;
Trailer ==
    /\ pc = "trailer"
    /\ UNCHANGED playVars
    /\ UNCHANGED << uiVars, budgetVars, encVars, resVars, seekVars, loopVars,
                    header_written, flushed, result >>
    /\ trailer_written' = TRUE
    /\ success' = TRUE
    /\ pc' = "cleanup"

\* Variant: the output I/O handle is never closed.
CleanupSetNoIo == {h \in opened : h # "pb"}

\* Handles the cleanup block releases: each non-null one; the output I/O
\* handle only through a non-null out_fmt_ctx without AVFMT_NOFILE.
CleanupSet ==
    {h \in opened : h = "pb" => ("out_fmt_ctx" \in opened /\ ~src.nofile)}

Cleanup ==
    /\ pc = "cleanup"
    /\ UNCHANGED playVars
    /\ UNCHANGED << uiVars, budgetVars, encVars, acquired, seekVars, loopVars,
                    header_written, flushed, trailer_written, success >>
    /\ released' = [h \in Handles |->
                       IF h \in CleanupSet THEN released[h] + 1 ELSE released[h]]
    /\ opened' = opened \ CleanupSet
    /\ result' = IF success THEN "success" ELSE "failure"
    /\ pc' = "returned"

\* The handler shows the Success / Error box and re-enables the button.
Acknowledge ==
    /\ pc = "returned"
    /\ UNCHANGED playVars
    /\ pc' = "idle"
    /\ uiMessage' = result
    /\ UNCHANGED << src, calc >>
    /\ RunReset

Next ==
    \/ StartButton
    \/ Validate
    \/ OpenInput
    \/ FindStreams
    \/ OpenDecoder
    \/ AllocOutput
    \/ SelectEncoder
    \/ SetupEncoder
    \/ SetupAudio
    \/ OpenOutput
    \/ SeekStart
    \/ AllocFrames
    \/ InitScaler
    \/ ReadEof
    \/ ReadSkip
    \/ ReadVideo
    \/ ReadAudio
    \/ Flush
    \/ Trailer
    \/ Cleanup
    \/ Acknowledge

Spec == Init /\ [][Next]_vars

\* ------------------------------------------------------------------------
\* Playback: the commands of the UI thread (WndProc, lines 1005-1082)
\* ------------------------------------------------------------------------
transVars == << pc, uiMessage, runVars >>

\* (int)max(1.0, 1000.0 / g_videoFPS) for a rate of fps[1]/fps[2] frames a
\* second.
StepMs(fps) == Max(1, (1000 * fps[2]) \div fps[1])

\* The step of the loaded file; src.fps is its g_videoFPS.
FrameMs == StepMs(src.fps)

\* (int64_t)(g_duration * 1000.0)
DurMs == (src.durE * 1000) \div SecDen

\* if (ms < 0) ms = 0; if (ms > durMs) ms = durMs;
ClampMs(ms) == IF ms < 0 THEN 0 ELSE IF ms > DurMs THEN DurMs ELSE ms

\* Positions the seek bar reports; its range is 0 .. (int)(g_duration * 1000).
ScrollMs == {m \in {0, 500, 2000} : m <= DurMs}

\* The player is paused with no request pending and the thread, if any, idle.
Quiet ==
    /\ ~g_isPlaying
    /\ ~g_seekRequested
    /\ ~g_decodeSingleFrame
    /\ tpc \in {"none", "loop", "chk_seek", "chk_single", "chk_play"}

\* WndProc takes the next WM_COMMAND / WM_HSCROLL message.
CanCommand == upc = "idle" /\ ncmd < MaxCmds

\* The thread is inside the single-frame block (lines 838-927).
InSingleFrameBlock ==
    tpc \in {"scan_begin", "scan", "publish", "publish_del", "publish_set",
             "publish_pos"}

\* The thread has read the target of the single-frame block (line 839) and
\* has not reached the end of the block (line 929).
ScanInProgress == InSingleFrameBlock /\ tpc # "scan_begin"

\* History of SeekMs: a call makes its first store.  The call before it is
\* kept, older ones are dropped.  inScan: the thread is inside one scan of
\* the single-frame block from the first store of the call to its return.
CallBegun(calls, ms, single) ==
    Append(IF calls = << >> THEN << >> ELSE << calls[Len(calls)] >>,
           [ms |-> ms, single |-> single, done |-> FALSE, svc |-> FALSE,
            seeks |-> << >>, inScan |-> ScanInProgress, played |-> FALSE])

\* History of SeekMs: the call returns.  The call before it stays only when
\* the thread has not found g_seekRequested set since that call began.
CallDone(calls) ==
    LET n == Len(calls)
        b == [calls[n] EXCEPT !.done = TRUE,
                              !.inScan = @ /\ ScanInProgress]
    IN IF n = 2 /\ ~calls[1].svc THEN << calls[1], b >> ELSE << b >>

\* History of SeekMs: the thread found g_seekRequested set.
Serviced(calls) == [i \in 1..Len(calls) |-> [calls[i] EXCEPT !.svc = TRUE]]

\* History of SeekMs: playback was switched on while the single-frame request
\* of a call was waiting (g_decodeSingleFrame set, the block not entered).
PlayedOver(calls) ==
    [i \in 1..Len(calls) |-> [calls[i] EXCEPT !.played = @ \/ calls[i].single]]

\* History of SeekMs: the thread did the seek of a request, to t.
Sought(calls, t) ==
    [i \in 1..Len(calls) |-> [calls[i] EXCEPT !.seeks = Append(@, t)]]

\* _beginthreadex(.., PlaybackThreadProc, ..); g_hPlaybackThread = th;
BeginThread ==
    /\ nThreads' = nThreads + 1
    /\ tpc' = "init"
    /\ dec' = [NoDec EXCEPT !.file = src]
    /\ g_hPlaybackThread' = TRUE

\* Variant: the handle is not looked at.
ThreadMissingAlways(h) == TRUE

\* if (!g_hPlaybackThread)
ThreadMissing(h) == ~h

\* EnsureThreadRunningPaused; `playing` is what g_isPlaying holds afterwards
\* when no thread had to be started.
EnsureThreadRunningPaused(playing) ==
    IF ThreadMissing(g_hPlaybackThread)
    THEN /\ g_playThreadShouldExit' = FALSE
         /\ g_isPlaying' = FALSE
         /\ BeginThread
    ELSE /\ g_isPlaying' = playing
         /\ UNCHANGED << g_hPlaybackThread, g_playThreadShouldExit, nThreads,
                         tpc, dec >>

\* A message is taken: the history of the last step ends.
NewCommand ==
    /\ CanCommand
    /\ ncmd' = ncmd + 1
    /\ stepRec' = NoStep
    /\ hScan' = NoScan
    /\ UNCHANGED << src, calc, transVars, hCalls, hLastSeek, hEof, stopTimedOut >>

\* IDC_BTN_PLAYPAUSE: TogglePlayPause. With no thread it calls StartPlayback,
\* which begins by entering the critical section (line 1006).
TogglePlayPause ==
    /\ NewCommand
    /\ UNCHANGED << g_seekRequested, g_seekTargetMs, g_currentPosMs,
                    g_decodeSingleFrame, g_stepDir, g_hFrameBitmap,
                    slotReleased, g_playThreadShouldExit, g_isPlaying,
                    g_hPlaybackThread, nThreads, tpc, dec >>
    /\ IF ThreadMissing(g_hPlaybackThread)
       THEN /\ g_csState = "free"
            /\ g_csState' = "ui"
            /\ ucmd' = [NoCmd EXCEPT !.kind = "start"]
            /\ upc' = "start_cs"
       ELSE /\ ucmd' = [NoCmd EXCEPT !.kind = "toggle", !.single = g_isPlaying]
            /\ upc' = "toggle_write"
            /\ UNCHANGED g_csState

\* StartPlayback inside the critical section and after it (lines 1007-1019):
\* the published bitmap is deleted and the slot nulled, the section is left,
\* the flags are set and the thread is begun.
StartPlayback ==
    /\ upc = "start_cs"
    /\ g_csState = "ui"
    /\ g_hFrameBitmap' = NoBitmap
    /\ slotReleased' = FALSE
    /\ g_csState' = "free"
    /\ g_playThreadShouldExit' = FALSE
    /\ g_isPlaying' = TRUE
    /\ BeginThread
    /\ upc' = "idle"
    /\ ucmd' = NoCmd
    /\ UNCHANGED << src, calc, transVars, g_seekRequested, g_seekTargetMs,
                    g_currentPosMs, g_decodeSingleFrame, g_stepDir, ncmd,
                    histVars >>

\* g_isPlaying = !g_isPlaying; the store, with the value loaded before.
ToggleWrite ==
    /\ upc = "toggle_write"
    /\ g_isPlaying' = ~ucmd.single
    /\ upc' = "idle"
    /\ ucmd' = NoCmd
    /\ hCalls' = IF ~ucmd.single /\ g_decodeSingleFrame /\ ~InSingleFrameBlock
                 THEN PlayedOver(hCalls)
                 ELSE hCalls
    /\ UNCHANGED << src, calc, transVars, g_hPlaybackThread, g_playThreadShouldExit,
                    g_seekRequested, g_seekTargetMs, g_currentPosMs,
                    g_decodeSingleFrame, g_stepDir, frameVars, ncmd,
                    threadVars, hLastSeek, stepRec, hScan, hEof,
                    stopTimedOut >>

\* StepForward / StepBackward up to g_isPlaying = false.
StepBegin(dir) ==
    /\ NewCommand
    /\ EnsureThreadRunningPaused(FALSE)
    /\ ucmd' = [NoCmd EXCEPT !.kind = "step", !.dir = dir, !.single = TRUE,
                             !.quiet = Quiet]
    /\ upc' = "step_dir"
    /\ UNCHANGED << g_seekRequested, g_seekTargetMs, g_currentPosMs,
                    g_decodeSingleFrame, g_stepDir, frameVars >>

\* IDC_BTN_FWD
StepForward == StepBegin(1)

\* IDC_BTN_BACK
StepBackward == StepBegin(0 - 1)

\* g_stepDir = +1;  /  g_stepDir = -1;
StepDir ==
    /\ upc = "step_dir"
    /\ g_stepDir' = ucmd.dir
    /\ upc' = "step_pos"
    /\ UNCHANGED << src, calc, transVars, g_hPlaybackThread, g_playThreadShouldExit,
                    g_isPlaying, g_seekRequested, g_seekTargetMs,
                    g_currentPosMs, g_decodeSingleFrame, frameVars, ucmd,
                    ncmd, threadVars, histVars >>

\* The target of the step: g_currentPosMs + frameMs forward; backward the
\* comparison g_currentPosMs > frameMs * 2, 0 when it fails.
StepPos ==
    /\ upc = "step_pos"
    /\ stepRec' = IF ucmd.quiet
                  THEN [dir |-> ucmd.dir, from |-> g_currentPosMs]
                  ELSE NoStep
    /\ IF ucmd.dir > 0
       THEN /\ ucmd' = [ucmd EXCEPT !.ms = g_currentPosMs + FrameMs]
            /\ upc' = "seek_target"
       ELSE IF g_currentPosMs > FrameMs * 2
       THEN /\ upc' = "step_pos2"
            /\ UNCHANGED ucmd
       ELSE /\ ucmd' = [ucmd EXCEPT !.ms = 0]
            /\ upc' = "seek_target"
    /\ UNCHANGED << src, calc, transVars, sharedVars, ncmd, threadVars, hCalls,
                    hLastSeek, hScan, hEof, stopTimedOut >>

\* Backward: the second read, g_currentPosMs - frameMs * 2.
StepPos2 ==
    /\ upc = "step_pos2"
    /\ ucmd' = [ucmd EXCEPT !.ms = g_currentPosMs - FrameMs * 2]
    /\ upc' = "seek_target"
    /\ UNCHANGED << src, calc, transVars, sharedVars, ncmd, threadVars, histVars >>

\* WM_HSCROLL of the seek bar: wantSingle = !g_isPlaying;
\* EnsureThreadRunningPaused; SeekMs(pos, wantSingle).
SeekbarScroll ==
    /\ NewCommand
    /\ \E pos \in ScrollMs :
          ucmd' = [NoCmd EXCEPT !.kind = "scroll", !.ms = pos,
                                !.single = ~g_isPlaying]
    /\ EnsureThreadRunningPaused(g_isPlaying)
    /\ upc' = "seek_target"
    /\ UNCHANGED << g_seekRequested, g_seekTargetMs, g_currentPosMs,
                    g_decodeSingleFrame, g_stepDir, frameVars >>

\* SeekMs: the clamp and g_seekTargetMs = ms;
SeekMsTarget ==
    /\ upc = "seek_target"
    /\ g_seekTargetMs' = ClampMs(ucmd.ms)
    /\ hCalls' = CallBegun(hCalls, ucmd.ms, ucmd.single)
    /\ upc' = "seek_req"
    /\ UNCHANGED << src, calc, transVars, g_hPlaybackThread, g_playThreadShouldExit,
                    g_isPlaying, g_seekRequested, g_currentPosMs,
                    g_decodeSingleFrame, g_stepDir, frameVars, ucmd, ncmd,
                    threadVars, hLastSeek, stepRec, hScan, hEof,
                    stopTimedOut >>

\* SeekMs: g_seekRequested = true;
SeekMsRequested ==
    /\ upc = "seek_req"
    /\ g_seekRequested' = TRUE
    /\ IF ucmd.single
       THEN /\ upc' = "seek_single"
            /\ UNCHANGED << ucmd, hCalls >>
       ELSE /\ upc' = "idle"
            /\ ucmd' = NoCmd
            /\ hCalls' = CallDone(hCalls)
    /\ UNCHANGED << src, calc, transVars, g_hPlaybackThread, g_playThreadShouldExit,
                    g_isPlaying, g_seekTargetMs, g_currentPosMs,
                    g_decodeSingleFrame, g_stepDir, frameVars, ncmd,
                    threadVars, hLastSeek, stepRec, hScan, hEof,
                    stopTimedOut >>

\* SeekMs: if (decodeSingle) g_decodeSingleFrame = true;
SeekMsSingle ==
    /\ upc = "seek_single"
    /\ g_decodeSingleFrame' = TRUE
    /\ upc' = "idle"
    /\ ucmd' = NoCmd
    /\ hCalls' = CallDone(hCalls)
    /\ UNCHANGED << src, calc, transVars, g_hPlaybackThread, g_playThreadShouldExit,
                    g_isPlaying, g_seekRequested, g_seekTargetMs,
                    g_currentPosMs, g_stepDir, frameVars, ncmd,
                    threadVars, hLastSeek, stepRec, hScan, hEof,
                    stopTimedOut >>

\* WM_DESTROY: StopPlayback, g_isPlaying = false;
StopPlayback ==
    /\ NewCommand
    /\ g_isPlaying' = FALSE
    /\ upc' = "stop_exit"
    /\ UNCHANGED << g_hPlaybackThread, g_playThreadShouldExit,
                    g_seekRequested, g_seekTargetMs, g_currentPosMs,
                    g_decodeSingleFrame, g_stepDir, frameVars, ucmd,
                    threadVars >>

\* StopPlayback: g_playThreadShouldExit = true; if (g_hPlaybackThread)
StopSetExit ==
    /\ upc = "stop_exit"
    /\ g_playThreadShouldExit' = TRUE
    /\ upc' = IF g_hPlaybackThread THEN "stop_wait" ELSE "quit"
    /\ UNCHANGED << src, calc, transVars, g_hPlaybackThread, g_isPlaying,
                    g_seekRequested, g_seekTargetMs, g_currentPosMs,
                    g_decodeSingleFrame, g_stepDir, frameVars, ucmd, ncmd,
                    threadVars, histVars >>

\* StopPlayback: WaitForSingleObject(.., 5000) returns, because the thread
\* has ended or because the five seconds are over; its result is not looked
\* at; CloseHandle; g_hPlaybackThread = nullptr; then PostQuitMessage.
StopWait ==
    /\ upc = "stop_wait"
    /\ stopTimedOut' = (nThreads > 0)
    /\ g_hPlaybackThread' = FALSE
    /\ upc' = "quit"
    /\ UNCHANGED << src, calc, transVars, g_playThreadShouldExit, g_isPlaying,
                    g_seekRequested, g_seekTargetMs, g_currentPosMs,
                    g_decodeSingleFrame, g_stepDir, frameVars, ucmd, ncmd,
                    threadVars, hCalls, hLastSeek, stepRec, hScan, hEof >>

\* ------------------------------------------------------------------------
\* Playback: the decode thread (PlaybackThreadProc, lines 753-1003)
\* ------------------------------------------------------------------------
\* (int64_t)(frame->best_effort_timestamp * av_q2d(time_base) * 1000.0)
FrameTimeMs(pts) == (pts * dec.file.vtb[1] * 1000) \div dec.file.vtb[2]

\* doSeek: av_rescale_q(toMs, {1,1000}, time_base), av_seek_frame(..,
\* AVSEEK_FLAG_BACKWARD) whose result is ignored, avcodec_flush_buffers.
\* The demuxer position afterwards.
DoSeek(rd0, toMs) ==
    LET ts == AvRescaleQ(toMs, 1, 1000, dec.file.vtb[1], dec.file.vtb[2])
    IN IF SeekPoints(dec.file.pkts, ts) # {} THEN SeekIndex(dec.file.pkts, ts) ELSE rd0

\* Index of the next packet of the video stream at or after i; past the end
\* of the file when there is none (av_read_frame < 0).
NextVideo(i) ==
    SetMinOf({j \in i..Len(dec.file.pkts) : dec.file.pkts[j].st = "v"}
             \cup {Len(dec.file.pkts) + 1})

\* avcodec_send_packet(dec_ctx, pkt) >= 0 for the packet at index i.
SendPacketOk(i) == i \notin dec.file.corrupt

\* Variant: the scaler is left out of the cleanup.
ThreadCleanupSetNoSws(held) == held \ {"sws_ctx"}

\* The resources the cleanup releases: every one whose local is not null
\* (lines 809-815 and 993-1000), and the context object.
ThreadCleanupSet(held) == held

\* The thread leaves from the locals d: its cleanup (lines 807-818 or
\* 992-1002), _endthreadex.
ThreadExit(d) ==
    /\ tpc' = "exited"
    /\ nThreads' = nThreads - 1
    /\ dec' = [d EXCEPT
                 !.held = d.held \ ThreadCleanupSet(d.held),
                 !.freed = [r \in ThreadResources |->
                              IF r \in ThreadCleanupSet(d.held)
                              THEN d.freed[r] + 1 ELSE d.freed[r]]]

\* What the thread owns when the do-block of lines 770-805 is left: by a
\* break after avformat_open_input, after the stream and decoder lookups,
\* after opening the decoder or creating the scaler, after the two
\* av_frame_alloc calls, after av_malloc, after av_packet_alloc; or at its
\* end, with everything.
InitOutcomes ==
    { {"ctx"},
      {"ctx", "fmt_ctx"},
      {"ctx", "fmt_ctx", "dec_ctx"},
      {"ctx", "fmt_ctx", "dec_ctx", "sws_ctx"},
      {"ctx", "fmt_ctx", "dec_ctx", "sws_ctx", "frame"},
      {"ctx", "fmt_ctx", "dec_ctx", "sws_ctx", "rgbFrame"},
      {"ctx", "fmt_ctx", "dec_ctx", "sws_ctx", "frame", "rgbFrame"},
      {"ctx", "fmt_ctx", "dec_ctx", "sws_ctx", "frame", "rgbFrame",
       "rgbBuffer"},
      ThreadResources }

\* Lines 770-818: open the file, the decoder, the scaler, the frames.
ThreadInit ==
    /\ tpc = "init"
    /\ \E got \in InitOutcomes :
          LET init_ok == got = ThreadResources
              d == [dec EXCEPT !.held = got]
          IN IF init_ok
             THEN tpc' = "first" /\ dec' = d /\ UNCHANGED nThreads
             ELSE ThreadExit(d)
    /\ UNCHANGED << src, calc, transVars, sharedVars, uiPlayVars, histVars >>

\* Line 826: if (g_seekRequested)
ThreadFirst ==
    /\ tpc = "first"
    /\ IF g_seekRequested
       THEN tpc' = "first_seek" /\ hCalls' = Serviced(hCalls)
       ELSE tpc' = "first_pos" /\ UNCHANGED hCalls
    /\ UNCHANGED << src, calc, transVars, sharedVars, uiPlayVars, nThreads, dec,
                    hLastSeek, stepRec, hScan, hEof, stopTimedOut >>

\* Line 826: doSeek(g_seekTargetMs);
ThreadFirstSeek ==
    /\ tpc = "first_seek"
    /\ dec' = [dec EXCEPT !.rd = DoSeek(dec.rd, g_seekTargetMs)]
    /\ hCalls' = Sought(hCalls, g_seekTargetMs)
    /\ hLastSeek' = g_seekTargetMs
    /\ tpc' = "first_clear"
    /\ UNCHANGED << src, calc, transVars, sharedVars, uiPlayVars, nThreads, stepRec,
                    hScan, hEof, stopTimedOut >>

\* Line 826: g_seekRequested = false;
ThreadFirstClear ==
    /\ tpc = "first_clear"
    /\ g_seekRequested' = FALSE
    /\ tpc' = "loop"
    /\ UNCHANGED << src, calc, transVars, g_hPlaybackThread, g_playThreadShouldExit,
                    g_isPlaying, g_seekTargetMs, g_currentPosMs,
                    g_decodeSingleFrame, g_stepDir, frameVars,
                    uiPlayVars, nThreads, dec, histVars >>

\* Line 827: doSeek(g_currentPosMs);
ThreadFirstPos ==
    /\ tpc = "first_pos"
    /\ dec' = [dec EXCEPT !.rd = DoSeek(dec.rd, g_currentPosMs)]
    /\ tpc' = "loop"
    /\ UNCHANGED << src, calc, transVars, sharedVars, uiPlayVars, nThreads, histVars >>

\* Line 829: while (!g_playThreadShouldExit)
ThreadLoop ==
    /\ tpc = "loop"
    /\ IF g_playThreadShouldExit
       THEN ThreadExit(dec)
       ELSE tpc' = "chk_seek" /\ UNCHANGED << nThreads, dec >>
    /\ UNCHANGED << src, calc, transVars, sharedVars, uiPlayVars, histVars >>

\* Line 830: if (g_seekRequested)
ThreadCheckSeek ==
    /\ tpc = "chk_seek"
    /\ IF g_seekRequested
       THEN tpc' = "rd_target" /\ hCalls' = Serviced(hCalls)
       ELSE tpc' = "chk_single" /\ UNCHANGED hCalls
    /\ UNCHANGED << src, calc, transVars, sharedVars, uiPlayVars, nThreads, dec,
                    hLastSeek, stepRec, hScan, hEof, stopTimedOut >>

\* Line 831: int64_t target = g_seekTargetMs;
ThreadReadTarget ==
    /\ tpc = "rd_target"
    /\ dec' = [dec EXCEPT !.target = g_seekTargetMs]
    /\ tpc' = "clr_req"
    /\ UNCHANGED << src, calc, transVars, sharedVars, uiPlayVars, nThreads, histVars >>

\* Lines 832-833: g_seekRequested = false; doSeek(target);
ThreadClearSeek ==
    /\ tpc = "clr_req"
    /\ g_seekRequested' = FALSE
    /\ dec' = [dec EXCEPT !.rd = DoSeek(dec.rd, dec.target),
                          !.target = NoDec.target]
    /\ hCalls' = Sought(hCalls, dec.target)
    /\ hLastSeek' = dec.target
    /\ tpc' = "chk_single"
    /\ UNCHANGED << src, calc, transVars, g_hPlaybackThread, g_playThreadShouldExit,
                    g_isPlaying, g_seekTargetMs, g_currentPosMs,
                    g_decodeSingleFrame, g_stepDir, frameVars,
                    uiPlayVars, nThreads, stepRec, hScan, hEof,
                    stopTimedOut >>

\* Line 837, left operand: g_decodeSingleFrame
ThreadCheckSingle ==
    /\ tpc = "chk_single"
    /\ tpc' = IF g_decodeSingleFrame THEN "chk_paused" ELSE "chk_play"
    /\ UNCHANGED << src, calc, transVars, sharedVars, uiPlayVars, nThreads, dec,
                    histVars >>

\* Line 837, right operand: !g_isPlaying
ThreadCheckPaused ==
    /\ tpc = "chk_paused"
    /\ tpc' = IF ~g_isPlaying THEN "scan_begin" ELSE "chk_play"
    /\ UNCHANGED << src, calc, transVars, sharedVars, uiPlayVars, nThreads, dec,
                    histVars >>

\* Lines 838-841: the locals of the single-frame block.
ScanBegin ==
    /\ tpc = "scan_begin"
    /\ dec' = [dec EXCEPT !.targetMs = g_seekTargetMs, !.bestMs = 0 - 1,
                          !.bestBmp = NoBitmap, !.produced = FALSE,
                          !.failed = FALSE, !.eof = FALSE,
                          !.scanned = << >>, !.cands = {}]
    /\ hScan' = [NoScan EXCEPT !.state = "running",
                                !.sought = hCalls[Len(hCalls)].seeks]
    /\ tpc' = "scan"
    /\ UNCHANGED << src, calc, transVars, sharedVars, uiPlayVars, nThreads, hCalls,
                    hLastSeek, stepRec, hEof, stopTimedOut >>

\* Variant: with no earlier frame remembered nothing usable is presented.
CrossPublishNoFallback(bestBmp, bestMs, ms) == [bmp |-> bestBmp, pos |-> bestMs]

\* Lines 896-918: the frame at or past the target was met in a backward
\* scan; the bitmap and the position that are published.
CrossPublish(bestBmp, bestMs, ms) ==
    IF bestBmp # NoBitmap
    THEN [bmp |-> bestBmp, pos |-> IF bestMs >= 0 THEN bestMs ELSE ms]
    ELSE [bmp |-> ms, pos |-> ms]

\* Lines 892-894: if (bestBmp) DeleteObject(bestBmp); bestBmp = hNew;
\* The candidate bitmaps alive afterwards.
Remembered(cands, bestBmp, hNew) == (cands \ {bestBmp}) \cup {hNew}

\* Lines 843-927: the next video packet of the scan and its frame.
ScanFrame ==
    /\ tpc = "scan"
    /\ UNCHANGED << src, calc, transVars, sharedVars, uiPlayVars, nThreads,
                    histVars >>
    /\ LET i == NextVideo(dec.rd) IN
       IF i > Len(dec.file.pkts)
       THEN /\ dec' = [dec EXCEPT !.rd = i, !.eof = TRUE]
            /\ tpc' = "scan_end"
       ELSE       IF ~SendPacketOk(i)
                  THEN /\ dec' = [dec EXCEPT !.rd = i + 1, !.failed = TRUE]
                       /\ tpc' = "scan_end"
                  ELSE LET ms == FrameTimeMs(dec.file.pkts[i].pts)
                           d == [dec EXCEPT !.rd = i + 1,
                                            !.scanned = Append(dec.scanned, ms)]
                           cross == CrossPublish(dec.bestBmp, dec.bestMs, ms)
                       IN
                       /\ IF g_stepDir >= 0
                          THEN IF ms >= dec.targetMs
                               THEN /\ dec' = [d EXCEPT !.pendBmp = ms,
                                                        !.pendPos = ms]
                                    /\ tpc' = "publish"
                               ELSE /\ dec' = d
                                    /\ tpc' = "scan"
                          ELSE IF ms < dec.targetMs
                               THEN /\ dec' = [d EXCEPT !.bestBmp = ms,
                                                        !.bestMs = ms,
                                                        !.cands =
                                                            Remembered(@,
                                                                dec.bestBmp,
                                                                ms)]
                                    /\ tpc' = "scan"
                               ELSE /\ dec' = [d EXCEPT !.pendBmp = cross.bmp,
                                                        !.pendPos = cross.pos,
                                                        !.bestBmp = NoBitmap,
                                                        !.cands =
                                                            @ \ {dec.bestBmp}]
                                    /\ tpc' = "publish"

\* The statements of a publishing critical section, in the order of the code
\* (lines 879-885, 899-905, 909-915 and 974-982).
\* EnterCriticalSection(&g_csState);
EnterPublish(from, to) ==
    /\ tpc = from
    /\ g_csState = "free"
    /\ g_csState' = "thread"
    /\ tpc' = to
    /\ UNCHANGED << src, calc, transVars, g_hPlaybackThread, g_playThreadShouldExit,
                    g_isPlaying, g_seekRequested, g_seekTargetMs,
                    g_currentPosMs, g_decodeSingleFrame, g_stepDir,
                    g_hFrameBitmap, slotReleased, uiPlayVars, nThreads, dec,
                    histVars >>

\* if (g_hFrameBitmap) DeleteObject(g_hFrameBitmap);
DeletePublished(from, to) ==
    /\ tpc = from
    /\ slotReleased' = (g_hFrameBitmap # NoBitmap)
    /\ tpc' = to
    /\ UNCHANGED << src, calc, transVars, g_hPlaybackThread, g_playThreadShouldExit,
                    g_isPlaying, g_seekRequested, g_seekTargetMs,
                    g_currentPosMs, g_decodeSingleFrame, g_stepDir,
                    g_hFrameBitmap, g_csState, uiPlayVars, nThreads, dec,
                    histVars >>

\* g_hFrameBitmap = hNew;
InstallFrame(from, to) ==
    /\ tpc = from
    /\ g_hFrameBitmap' = dec.pendBmp
    /\ slotReleased' = FALSE
    /\ tpc' = to
    /\ UNCHANGED << src, calc, transVars, g_hPlaybackThread, g_playThreadShouldExit,
                    g_isPlaying, g_seekRequested, g_seekTargetMs,
                    g_currentPosMs, g_decodeSingleFrame, g_stepDir, g_csState,
                    uiPlayVars, nThreads, dec, histVars >>

\* The critical section of lines 879-885, 899-905 or 909-915.
ScanPublish == EnterPublish("publish", "publish_del")

ScanDelete == DeletePublished("publish_del", "publish_set")

ScanInstall == InstallFrame("publish_set", "publish_pos")

\* g_currentPosMs = ms; LeaveCriticalSection; produced = true;
ScanPosition ==
    /\ tpc = "publish_pos"
    /\ g_currentPosMs' = dec.pendPos
    /\ g_csState' = "free"
    /\ dec' = [dec EXCEPT !.produced = TRUE]
    /\ tpc' = "scan_end"
    /\ UNCHANGED << src, calc, transVars, g_hPlaybackThread, g_playThreadShouldExit,
                    g_isPlaying, g_seekRequested, g_seekTargetMs,
                    g_decodeSingleFrame, g_stepDir, g_hFrameBitmap,
                    slotReleased, uiPlayVars, nThreads, histVars >>

\* Variant: the window is told about a frame after every scan.
FramePostedAlways(produced) == TRUE

\* Lines 931-933: if (produced) PostMessage(g_mainHwnd, WM_APP_FRAME_READY,
\* 0, 0); whether the message is posted.
FramePosted(produced) == produced

\* Line 929: g_decodeSingleFrame = false;
ScanEnd ==
    /\ tpc = "scan_end"
    /\ g_decodeSingleFrame' = FALSE
    /\ tpc' = "scan_end2"
    /\ UNCHANGED << src, calc, transVars, g_hPlaybackThread, g_playThreadShouldExit,
                    g_isPlaying, g_seekRequested, g_seekTargetMs,
                    g_currentPosMs, g_stepDir, frameVars, uiPlayVars,
                    nThreads, dec, histVars >>

\* Lines 930-935: g_stepDir = 0; PostMessage if produced; Sleep(5); continue;
\* The locals of the block end with it.
ScanEnd2 ==
    /\ tpc = "scan_end2"
    /\ g_stepDir' = 0
    /\ dec' = [NoDec EXCEPT !.rd = dec.rd, !.held = dec.held,
                            !.file = dec.file]
    /\ hScan' = [state |-> "ended", sought |-> hScan.sought,
                 target |-> dec.targetMs,
                 produced |-> dec.produced, failed |-> dec.failed,
                 eof |-> dec.eof, scanned |-> dec.scanned,
                 bmp |-> IF dec.produced THEN dec.pendBmp ELSE NoBitmap,
                 pos |-> IF dec.produced THEN dec.pendPos ELSE 0 - 1,
                 posted |-> FramePosted(dec.produced)]
    /\ tpc' = "loop"
    /\ UNCHANGED << src, calc, transVars, g_hPlaybackThread, g_playThreadShouldExit,
                    g_isPlaying, g_seekRequested, g_seekTargetMs,
                    g_currentPosMs, g_decodeSingleFrame, frameVars,
                    uiPlayVars, nThreads, hCalls, hLastSeek, stepRec, hEof,
                    stopTimedOut >>

\* Line 938: if (!g_isPlaying) { Sleep(10); continue; }
ThreadCheckPlaying ==
    /\ tpc = "chk_play"
    /\ tpc' = IF g_isPlaying THEN "play_read" ELSE "loop"
    /\ UNCHANGED << src, calc, transVars, sharedVars, uiPlayVars, nThreads, dec,
                    histVars >>

\* Variant: the end of the stream leaves the flag alone.
AtEndOfStreamKeep(playing) == playing

\* Line 941: g_isPlaying = false;
AtEndOfStream(playing) == FALSE

\* Lines 940-951: one packet of continuous playback.
PlayRead ==
    /\ tpc = "play_read"
    /\ UNCHANGED << src, calc, transVars, g_hPlaybackThread, g_playThreadShouldExit,
                    g_seekRequested, g_seekTargetMs, g_currentPosMs,
                    g_decodeSingleFrame, g_stepDir, frameVars,
                    uiPlayVars, nThreads, hCalls, hLastSeek, stepRec,
                    hScan, stopTimedOut >>
    /\ IF dec.rd > Len(dec.file.pkts)
       THEN /\ g_isPlaying' = AtEndOfStream(g_isPlaying)
            /\ hEof' = TRUE
            /\ tpc' = "loop"
            /\ UNCHANGED dec
       ELSE IF dec.file.pkts[dec.rd].st # "v"
       THEN /\ dec' = [dec EXCEPT !.rd = dec.rd + 1]
            /\ tpc' = "loop"
            /\ UNCHANGED << g_isPlaying, hEof >>
       ELSE    /\ UNCHANGED << g_isPlaying, hEof >>
               /\ IF SendPacketOk(dec.rd)
                  THEN /\ dec' = [dec EXCEPT
                                     !.rd = dec.rd + 1,
                                     !.pendBmp = FrameTimeMs(dec.file.pkts[dec.rd].pts),
                                     !.pendPos = FrameTimeMs(dec.file.pkts[dec.rd].pts)]
                       /\ tpc' = "play_publish"
                  ELSE /\ dec' = [dec EXCEPT !.rd = dec.rd + 1]
                       /\ tpc' = "loop"

\* The critical section of lines 974-982.
PlayPublish == EnterPublish("play_publish", "play_del")

PlayDelete == DeletePublished("play_del", "play_set")

PlayInstall == InstallFrame("play_set", "play_pos")

\* g_currentPosMs = ms; LeaveCriticalSection; then PostMessage and Sleep.
PlayPosition ==
    /\ tpc = "play_pos"
    /\ g_currentPosMs' = dec.pendPos
    /\ g_csState' = "free"
    /\ dec' = [dec EXCEPT !.pendBmp = NoDec.pendBmp, !.pendPos = NoDec.pendPos]
    /\ tpc' = "loop"
    /\ UNCHANGED << src, calc, transVars, g_hPlaybackThread, g_playThreadShouldExit,
                    g_isPlaying, g_seekRequested, g_seekTargetMs,
                    g_decodeSingleFrame, g_stepDir, g_hFrameBitmap,
                    slotReleased, uiPlayVars, nThreads, histVars >>

PlayInit ==
    /\ src \in PlaySources
    /\ calc = NoCalc
    /\ pc = "idle"
    /\ uiMessage = Null
    /\ RunInit
    /\ PlayerInit

PlayNext ==
    \/ TogglePlayPause
    \/ StartPlayback
    \/ ToggleWrite
    \/ StepForward
    \/ StepBackward
    \/ StepDir
    \/ StepPos
    \/ StepPos2
    \/ SeekbarScroll
    \/ SeekMsTarget
    \/ SeekMsRequested
    \/ SeekMsSingle
    \/ StopPlayback
    \/ StopSetExit
    \/ StopWait
    \/ ThreadInit
    \/ ThreadFirst
    \/ ThreadFirstSeek
    \/ ThreadFirstClear
    \/ ThreadFirstPos
    \/ ThreadLoop
    \/ ThreadCheckSeek
    \/ ThreadReadTarget
    \/ ThreadClearSeek
    \/ ThreadCheckSingle
    \/ ThreadCheckPaused
    \/ ScanBegin
    \/ ScanFrame
    \/ ScanPublish
    \/ ScanDelete
    \/ ScanInstall
    \/ ScanPosition
    \/ ScanEnd
    \/ ScanEnd2
    \/ ThreadCheckPlaying
    \/ PlayRead
    \/ PlayPublish
    \/ PlayDelete
    \/ PlayInstall
    \/ PlayPosition

PlaySpec == PlayInit /\ [][PlayNext]_vars

\* The steps of the decode thread.
ThreadStep ==
    \/ ThreadInit
    \/ ThreadFirst
    \/ ThreadFirstSeek
    \/ ThreadFirstClear
    \/ ThreadFirstPos
    \/ ThreadLoop
    \/ ThreadCheckSeek
    \/ ThreadReadTarget
    \/ ThreadClearSeek
    \/ ThreadCheckSingle
    \/ ThreadCheckPaused
    \/ ScanBegin
    \/ ScanFrame
    \/ ScanPublish
    \/ ScanDelete
    \/ ScanInstall
    \/ ScanPosition
    \/ ScanEnd
    \/ ScanEnd2
    \/ ThreadCheckPlaying
    \/ PlayRead
    \/ PlayPublish
    \/ PlayDelete
    \/ PlayInstall
    \/ PlayPosition

\* The files of the runs checked for progress.
FairSources == {SrcNoDur, SrcBad}

PlayFairInit == PlayInit /\ src \in FairSources

\* The player with a decode thread that the system keeps scheduling: its
\* library calls return and its sleeps (lines 934, 938, 988) end.
PlayFairSpec == PlayFairInit /\ [][PlayNext]_vars /\ WF_vars(ThreadStep)

\* ------------------------------------------------------------------------
\* av_rescale_q as the program calls it (lines 821, 1212, 1222, 1257),
\* applied from one time base to another and back
\* ------------------------------------------------------------------------
\* Largest magnitude of the timestamps rescaled.
MaxTs == 6

\* Time bases the program meets: stream time bases, the milliseconds of
\* doSeek and AV_TIME_BASE_Q.
TimeBases == {<< 1, 4 >>, << 1, 8 >>, << 2, 25 >>, << 1, 1000 >>,
              << 1, AV_TIME_BASE >>}

RescaleInit ==
    /\ src = SrcHD
    /\ pc = "idle"
    /\ uiMessage = Null
    /\ RunInit
    /\ PlayerInit
    /\ \E v \in (0 - MaxTs)..MaxTs, a \in TimeBases, b \in TimeBases :
           calc = [fn |-> "rescale", stage |-> 0, v |-> v, a |-> a, b |-> b,
                   mid |-> 0, back |-> 0]

\* av_rescale_q(v, a, b)
RescaleThere ==
    /\ calc.fn = "rescale"
    /\ calc.stage = 0
    /\ calc' = [calc EXCEPT !.stage = 1,
                            !.mid = AvRescaleQ(calc.v, calc.a[1], calc.a[2],
                                               calc.b[1], calc.b[2])]
    /\ UNCHANGED << src, transVars, playVars >>

\* av_rescale_q(mid, b, a)
RescaleBack ==
    /\ calc.fn = "rescale"
    /\ calc.stage = 1
    /\ calc' = [calc EXCEPT !.stage = 2,
                            !.back = AvRescaleQ(calc.mid, calc.b[1], calc.b[2],
                                                calc.a[1], calc.a[2])]
    /\ UNCHANGED << src, transVars, playVars >>

RescaleNext ==
    \/ RescaleThere
    \/ RescaleBack

RescaleSpec == RescaleInit /\ [][RescaleNext]_vars

\* ------------------------------------------------------------------------
\* The frame rate GetVideoInfo takes from the stream (lines 637-643) and the
\* step made of it (lines 1068, 1077)
\* ------------------------------------------------------------------------
\* Largest numerator and denominator of the small rates enumerated.
MaxRateNum == 3

MaxRateDen == 2

\* AVRational values libavformat reports for avg_frame_rate and r_frame_rate:
\* unknown rates (a zero numerator or denominator), small rates, NTSC, and a
\* rate above 1000 frames a second.
RateValues ==
    ((0..MaxRateNum) \X (0..MaxRateDen)) \cup {<< 30000, 1001 >>, << 2000, 1 >>}

\* Variant: the nominal rate is used whenever the average rate is not set.
VideoFPSNoFallback(avg, nom) == IF avg[1] # 0 /\ avg[2] # 0 THEN avg ELSE nom

\* g_videoFPS after lines 637-643, as the rational av_q2d is applied to.
VideoFPS(avg, nom) ==
    IF avg[1] # 0 /\ avg[2] # 0 THEN avg
    ELSE IF nom[1] # 0 /\ nom[2] # 0 THEN nom
    ELSE << 30, 1 >>

ProbeInit ==
    /\ src = SrcHD
    /\ pc = "idle"
    /\ uiMessage = Null
    /\ RunInit
    /\ PlayerInit
    /\ \E avg \in RateValues, nom \in RateValues :
           calc = [fn |-> "probe", stage |-> 0, avg_frame_rate |-> avg,
                   r_frame_rate |-> nom, g_videoFPS |-> << 30, 1 >>,
                   frameMs |-> 0]

\* GetVideoInfo returns true: lines 637-643 have set g_videoFPS.
GetVideoInfo ==
    /\ calc.fn = "probe"
    /\ calc.stage = 0
    /\ calc' = [calc EXCEPT !.stage = 1,
                            !.g_videoFPS = VideoFPS(calc.avg_frame_rate,
                                                    calc.r_frame_rate)]
    /\ UNCHANGED << src, transVars, playVars >>

\* StepForward or StepBackward computes frameMs (lines 1068, 1077).
StepSize ==
    /\ calc.fn = "probe"
    /\ calc.stage = 1
    /\ calc' = [calc EXCEPT !.stage = 2, !.frameMs = StepMs(calc.g_videoFPS)]
    /\ UNCHANGED << src, transVars, playVars >>

ProbeNext ==
    \/ GetVideoInfo
    \/ StepSize

ProbeSpec == ProbeInit /\ [][ProbeNext]_vars

\* ------------------------------------------------------------------------
\* The output path of the Start button handler (WndProc, lines 478-523)
\* ------------------------------------------------------------------------
\* Size of the path buffers, in characters with the terminator.
MAX_PATH == 260

\* Most numbered outputs of earlier runs found on the disk.
MaxFiles == 3

RECURSIVE Repeat(_, _)
Repeat(c, n) == IF n = 0 THEN "" ELSE c \o Repeat(c, n - 1)

\* StringCchPrintfA(dst, cch, ...): the text, cut to cch - 1 characters when
\* it does not fit (the error it returns is not looked at).
StringCchPrintfA(cch, text) ==
    IF Len(text) < cch THEN text ELSE SubSeq(text, 1, cch - 1)

\* "%s_%s%s"
BaseName(fname, suffix, ext) ==
    StringCchPrintfA(MAX_PATH, fname \o "_" \o suffix \o ext)

\* "%s_%s-%d%s"
Numbered(fname, suffix, i, ext) ==
    StringCchPrintfA(MAX_PATH,
                     fname \o "_" \o suffix \o "-" \o ToString(i) \o ext)

\* _makepath_s(candidate, MAX_PATH, drive, dir, name, nullptr) succeeds; when
\* the path does not fit it calls the invalid parameter handler, which ends
\* the process.
MakePathFits(drive, dir, name) == Len(drive \o dir \o name) < MAX_PATH

MakePath(drive, dir, name) == drive \o dir \o name

\* Variant: no file is ever found.
AccessNever(files, path) == FALSE

\* _access(path, 0) == 0
Access(files, path) == path \in files

\* if (wcslen(suffixW) == 0) wcscpy_s(suffixW, L"RESIZED");
SuffixOf(suffixW) == IF Len(suffixW) = 0 THEN "RESIZED" ELSE suffixW

\* Directories of the dropped file: a short one and one of 242 characters.
Dirs == {"\\v\\", "\\" \o Repeat("d", 240) \o "\\"}

\* The outputs of earlier runs with the same suffix: the plain name (0) and
\* the numbered ones.
EarlierOutputs(dir, fname, suffix, ext, ks) ==
    {MakePath("C:", dir, IF k = 0 THEN fname \o "_" \o suffix \o ext
                         ELSE fname \o "_" \o suffix \o "-" \o ToString(k)
                                  \o ext) : k \in ks}

PathInit ==
    /\ src = SrcHD
    /\ pc = "idle"
    /\ uiMessage = Null
    /\ RunInit
    /\ PlayerInit
    /\ \E dir \in Dirs, fname \in {"a", "ab", "clip"}, suffixW \in {"", "S"},
          ks \in SUBSET (0..MaxFiles) :
           calc = [fn |-> "path", stage |-> "suffix", drive |-> "C:",
                   dir |-> dir, fname |-> fname, ext |-> ".mp4",
                   suffixW |-> suffixW, suffixA |-> "",
                   files |-> EarlierOutputs(dir, fname, SuffixOf(suffixW),
                                            ".mp4", ks),
                   candidate |-> "", i |-> 0, outPath |-> ""]

\* Lines 478-482: the suffix is read from the edit control.
ReadSuffix ==
    /\ calc.fn = "path"
    /\ calc.stage = "suffix"
    /\ calc' = [calc EXCEPT !.stage = "base",
                            !.suffixA = SuffixOf(calc.suffixW)]
    /\ UNCHANGED << src, transVars, playVars >>

\* The candidate is kept, or the loop over the numbered names begins.
Tried(c, name, i) ==
    IF ~MakePathFits(c.drive, c.dir, name)
    THEN [c EXCEPT !.stage = "fault"]
    ELSE LET candidate == MakePath(c.drive, c.dir, name)
         IN IF Access(c.files, candidate)
            THEN [c EXCEPT !.stage = "loop", !.candidate = candidate,
                           !.i = i + 1]
            ELSE [c EXCEPT !.stage = "done", !.candidate = candidate,
                           !.i = i, !.outPath = candidate]

\* Lines 508-512: the plain name.
FirstCandidate ==
    /\ calc.fn = "path"
    /\ calc.stage = "base"
    /\ calc' = Tried(calc, BaseName(calc.fname, calc.suffixA, calc.ext), 0)
    /\ UNCHANGED << src, transVars, playVars >>

\* Lines 513-518: one turn of for (int i = 1;; i++).
NextCandidate ==
    /\ calc.fn = "path"
    /\ calc.stage = "loop"
    /\ calc' = Tried(calc, Numbered(calc.fname, calc.suffixA, calc.i, calc.ext),
                     calc.i)
    /\ UNCHANGED << src, transVars, playVars >>

PathNext ==
    \/ ReadSuffix
    \/ FirstCandidate
    \/ NextCandidate

PathSpec == PathInit /\ [][PathNext]_vars

\* ------------------------------------------------------------------------
\* The preview bitmap (ExtractMiddleFrameBitmap, lines 650-748)
\* ------------------------------------------------------------------------
\* Lines 684-718 on a file that opened: middle_ts = (duration / 2.0) *
\* AV_TIME_BASE; av_seek_frame(fmt_ctx, -1, middle_ts, AVSEEK_FLAG_BACKWARD),
\* whose result is ignored; then the first frame the decoder returns.  The
\* bitmap is named by the time of its frame in ms; nullptr when the file has
\* no video stream, when no video packet follows, or when
\* avcodec_send_packet fails on the first one.
ExtractMiddleFrameBitmap(file, durE) ==
    LET middle_ts == (durE * AV_TIME_BASE) \div (2 * SecDen)
        ts == AvRescaleQ(middle_ts, 1, AV_TIME_BASE, file.vtb[1], file.vtb[2])
        rd0 == IF SeekPoints(file.pkts, ts) # {}
               THEN SeekIndex(file.pkts, ts)
               ELSE 1
        i == SetMinOf({j \in rd0..Len(file.pkts) : file.pkts[j].st = "v"}
                      \cup {Len(file.pkts) + 1})
    IN IF ~file.hasVideo \/ i > Len(file.pkts) \/ i \in file.corrupt
       THEN NoBitmap
       ELSE (file.pkts[i].pts * file.vtb[1] * 1000) \div file.vtb[2]

\* A file is dropped while the Start and End edits hold a custom range.
PreviewInit ==
    /\ src \in PlaySources
    /\ pc = "idle"
    /\ uiMessage = Null
    /\ RunInit
    /\ PlayerInit
    /\ \E s \in EditTimes, e \in EditTimes :
           calc = [fn |-> "preview", stage |-> 0, startE |-> s, endE |-> e,
                   duration |-> 0, hBitmap |-> NoBitmap]

\* Line 351: GetVideoInfo(g_inputPath, g_vidWidth, g_vidHeight, g_duration).
ProbeDuration ==
    /\ calc.fn = "preview"
    /\ calc.stage = 0
    /\ calc' = [calc EXCEPT !.stage = 1, !.duration = src.durE]
    /\ UNCHANGED << src, transVars, playVars >>

\* Line 411: ExtractMiddleFrameBitmap(g_inputPath, g_vidWidth, g_vidHeight,
\* g_duration).
ExtractPreview ==
    /\ calc.fn = "preview"
    /\ calc.stage = 1
    /\ calc' = [calc EXCEPT !.stage = 2,
                            !.hBitmap = ExtractMiddleFrameBitmap(src,
                                                                 calc.duration)]
    /\ UNCHANGED << src, transVars, playVars >>

PreviewNext ==
    \/ ProbeDuration
    \/ ExtractPreview

PreviewSpec == PreviewInit /\ [][PreviewNext]_vars

\* ------------------------------------------------------------------------
\* A file is dropped while the player is in use (WM_DROPFILES, lines
\* 346-432; WM_PAINT, lines 569-605)
\* ------------------------------------------------------------------------
\* A file that is not a video: avformat_open_input or the search for a video
\* stream fails on it.
NotVideo == [NoFile EXCEPT !.name = "txt"]

\* The files dropped on the window while another one is loaded.
DroppedFiles == {SrcOdd, NotVideo}

\* Lines 348-349: DragQueryFileA stores the path of the dropped file in
\* g_inputPath, then GetVideoInfo sets g_vidWidth, g_vidHeight, g_duration
\* and g_videoFPS when it succeeds and leaves them alone when it fails.
\* What the path and these globals describe afterwards.
DropProbe(cur, f) ==
    IF f.hasVideo
    THEN f
    ELSE [f EXCEPT !.width = cur.width, !.height = cur.height,
                   !.durE = cur.durE, !.fps = cur.fps]

\* WM_DROPFILES up to the branch on the result of GetVideoInfo.
DropBegin ==
    /\ CanCommand
    /\ ncmd' = ncmd + 1
    /\ stepRec' = NoStep
    /\ hScan' = NoScan
    /\ \E f \in DroppedFiles :
          /\ src' = DropProbe(src, f)
          /\ ucmd' = [NoCmd EXCEPT !.kind = "drop"]
          /\ upc' = IF f.hasVideo THEN "drop_test" ELSE "drop_failed"
    /\ UNCHANGED << calc, transVars, sharedVars, threadVars, hCalls, hLastSeek,
                    hEof, stopTimedOut >>

\* Lines 422-425: the message box and the reset of the info text.
DropFailed ==
    /\ upc = "drop_failed"
    /\ upc' = "idle"
    /\ ucmd' = NoCmd
    /\ UNCHANGED << src, calc, transVars, sharedVars, ncmd, threadVars,
                    histVars >>

\* Line 410: if (g_hFrameBitmap)
DropTest ==
    /\ upc = "drop_test"
    /\ upc' = IF g_hFrameBitmap # NoBitmap THEN "drop_del" ELSE "drop_extract"
    /\ UNCHANGED << src, calc, transVars, sharedVars, ucmd, ncmd, threadVars,
                    histVars >>

\* Line 410: DeleteObject(g_hFrameBitmap);
DropDelete ==
    /\ upc = "drop_del"
    /\ slotReleased' = (g_hFrameBitmap # NoBitmap)
    /\ upc' = "drop_null"
    /\ UNCHANGED << src, calc, transVars, g_hPlaybackThread,
                    g_playThreadShouldExit, g_isPlaying, g_seekRequested,
                    g_seekTargetMs, g_currentPosMs, g_decodeSingleFrame,
                    g_stepDir, g_hFrameBitmap, g_csState, ucmd, ncmd,
                    threadVars, histVars >>

\* Line 410: g_hFrameBitmap = nullptr;
DropNull ==
    /\ upc = "drop_null"
    /\ g_hFrameBitmap' = NoBitmap
    /\ slotReleased' = FALSE
    /\ upc' = "drop_extract"
    /\ UNCHANGED << src, calc, transVars, g_hPlaybackThread,
                    g_playThreadShouldExit, g_isPlaying, g_seekRequested,
                    g_seekTargetMs, g_currentPosMs, g_decodeSingleFrame,
                    g_stepDir, g_csState, ucmd, ncmd, threadVars, histVars >>

\* Line 411: g_hFrameBitmap = ExtractMiddleFrameBitmap(..);
DropExtract ==
    /\ upc = "drop_extract"
    /\ g_hFrameBitmap' = ExtractMiddleFrameBitmap(src, src.durE)
    /\ slotReleased' = FALSE
    /\ upc' = "drop_flags"
    /\ UNCHANGED << src, calc, transVars, g_hPlaybackThread,
                    g_playThreadShouldExit, g_isPlaying, g_seekRequested,
                    g_seekTargetMs, g_currentPosMs, g_decodeSingleFrame,
                    g_stepDir, g_csState, ucmd, ncmd, threadVars, histVars >>

\* Lines 417-419: g_isPlaying = false; g_currentPosMs = 0;
\* g_playerReady = true;
DropFlags ==
    /\ upc = "drop_flags"
    /\ g_isPlaying' = FALSE
    /\ g_currentPosMs' = 0
    /\ upc' = "idle"
    /\ ucmd' = NoCmd
    /\ UNCHANGED << src, calc, transVars, g_hPlaybackThread,
                    g_playThreadShouldExit, g_seekRequested, g_seekTargetMs,
                    g_decodeSingleFrame, g_stepDir, frameVars, ncmd,
                    threadVars, histVars >>

\* WM_PAINT, line 573: if (g_hFrameBitmap)
PaintTest ==
    /\ NewCommand
    /\ ucmd' = [NoCmd EXCEPT !.kind = "paint"]
    /\ upc' = IF g_hFrameBitmap # NoBitmap THEN "paint_draw" ELSE "idle"
    /\ UNCHANGED << sharedVars, threadVars >>

\* WM_PAINT, lines 593-598: SelectObject(memDC, g_hFrameBitmap) and the
\* StretchBlt from it.
PaintDraw ==
    /\ upc = "paint_draw"
    /\ upc' = "idle"
    /\ ucmd' = NoCmd
    /\ UNCHANGED << src, calc, transVars, sharedVars, ncmd, threadVars,
                    histVars >>

\* A file with three frames is loaded; nothing has been played yet.
DropInit ==
    /\ src = SrcShort
    /\ calc = NoCalc
    /\ pc = "idle"
    /\ uiMessage = Null
    /\ RunInit
    /\ PlayerReset
    /\ g_hFrameBitmap = ExtractMiddleFrameBitmap(src, src.durE)

DropNext ==
    \/ DropBegin
    \/ DropFailed
    \/ DropTest
    \/ DropDelete
    \/ DropNull
    \/ DropExtract
    \/ DropFlags
    \/ PaintTest
    \/ PaintDraw
    \/ TogglePlayPause
    \/ StartPlayback
    \/ ToggleWrite
    \/ ThreadInit
    \/ ThreadFirst
    \/ ThreadFirstPos
    \/ ThreadLoop
    \/ ThreadCheckSeek
    \/ ThreadCheckSingle
    \/ ThreadCheckPlaying
    \/ PlayRead
    \/ PlayPublish
    \/ PlayDelete
    \/ PlayInstall
    \/ PlayPosition

DropSpec == DropInit /\ [][DropNext]_vars

\* ------------------------------------------------------------------------
\* Properties
\* ------------------------------------------------------------------------
\* The call has computed its budget (it did not trap in the division).
Budgeted == pc \notin {"idle", "validate", "fault"}

\* The call returned false before opening anything.
RejectedEarly ==
    /\ pc = "returned"
    /\ result = "failure"
    /\ acquired = {}
    /\ ~header_written

\* C1: whenever the call was made with end <= start, or its derived bitrate
\* is <= 0, it has returned failure and has opened neither the input, nor the
\* output, nor any codec.
C1_RejectWithoutOpening ==
    (Budgeted /\ (req.endE <= req.startE \/ target_bitrate <= 0)) => RejectedEarly

\* A positive size over a range of at least one second whose bitrate comes
\* out as 0 was rejected with nothing opened.
C1_Witness ==
    /\ RejectedEarly
    /\ req.size[1] > 0
    /\ req.endE - req.startE >= SecDen
    /\ target_bitrate = 0

\* floor(sizeMB * 8 * 1024^2 * 0.95 / (end - start)) for sizeMB = size[1] /
\* size[2] and end - start = dE / SecDen seconds; 8 * 0.95 * SecDen = 304/5.
FloorBitrate(size, dE) == (size[1] * 1048576 * 304) \div (5 * size[2] * dE)

\* C2: for every request accepted by validation, including non-integer
\* segment durations, the bitrate configured on the encoder equals
\* floor(sizeMB * 8 * 1024^2 * 0.95 / (end - start)) and is strictly positive.
C2_BitrateIsFloor ==
    ("enc_ctx" \in acquired) =>
        /\ enc.bit_rate = FloorBitrate(req.size, req.endE - req.startE)
        /\ enc.bit_rate > 0

\* C3: for every request with end > start and size > 0, including segments
\* shorter than one second, the budget computation never faults and ends
\* either with a strictly positive bitrate or with a rejection before any
\* resource is opened.
C3_BudgetNeverFaults ==
    /\ pc # "fault"
    /\ (Budgeted /\ req.endE > req.startE /\ req.size[1] > 0) =>
           (target_bitrate > 0 \/ RejectedEarly)

\* The request of the scenario: start = 10.0 s, end = 20.0 s, 5 MB.
Scenario10to20 ==
    /\ Budgeted
    /\ req.startE = 10 * SecDen
    /\ req.endE = 20 * SecDen
    /\ req.size = <<5, 1>>

\* C4 as stated: for start = 10.0 s, end = 20.0 s and sizeMB = 5 the target
\* bitrate is 4,239,756 bits/sec, give or take 1.
C4_ScenarioAsStated ==
    Scenario10to20 => target_bitrate \in 4239755..4239757

\* C4 amended: for start = 10.0 s, end = 20.0 s and sizeMB = 5 the target
\* bitrate is 3,984,588 bits/sec, which is floor(5 * 8 * 1024^2 * 0.95 / 10).
C4_ScenarioBitrate ==
    Scenario10to20 =>
        /\ target_bitrate = 3984588
        /\ target_bitrate = FloorBitrate(<<5, 1>>, 10 * SecDen)

\* The scenario's request reached the encoder with that bitrate.
C4_Witness ==
    /\ Scenario10to20
    /\ "enc_ctx" \in acquired
    /\ enc.bit_rate = 3984588

\* A video timestamp of the source lies in [start, end] of the request.
AtOrAfterStart(p) == p * src.vtb[1] * SecDen >= req.startE * src.vtb[2]

AtOrBeforeEnd(p) == p * src.vtb[1] * SecDen <= req.endE * src.vtb[2]

InRange(p) == AtOrAfterStart(p) /\ AtOrBeforeEnd(p)

SentPts == [i \in 1..Len(sent) |-> sent[i].pts]

AfterLoop == pc \in {"flush", "trailer", "cleanup", "returned"}

\* C5: the frames handed to the encoder are exactly the decoded frames whose
\* source time lies in [start, end], both bounds included, in decode order
\* (so none before start and none after end); a decoded frame with time >
\* end is the last one decoded and the run has moved on to the flush.
C5_RangeFilter ==
    /\ SentPts = SelectSeq(rcvd, InRange)
    /\ \A i \in 1..Len(rcvd) :
          ~AtOrBeforeEnd(rcvd[i]) => (i = Len(rcvd) /\ AfterLoop)

\* A run that decoded a frame before start, encoded one exactly at start and
\* one exactly at end, and stopped on a frame past end.
C5_Witness ==
    /\ pc = "flush"
    /\ \E i \in 1..Len(rcvd) : ~AtOrAfterStart(rcvd[i])
    /\ \E i \in 1..Len(sent) :
          sent[i].pts * src.vtb[1] * SecDen = req.startE * src.vtb[2]
    /\ \E i \in 1..Len(sent) :
          sent[i].pts * src.vtb[1] * SecDen = req.endE * src.vtb[2]
    /\ ~AtOrBeforeEnd(rcvd[Len(rcvd)])

\* The start of the request in the time base tb, rounded to nearest.
StartInTb(tb) ==
    (2 * req.startE * tb[2] + SecDen * tb[1]) \div (2 * SecDen * tb[1])

\* max(0, pts - startPts) rescaled from the source to the encoder time base.
RebasedTs(p) ==
    AvRescaleQ(Max(0, p - StartInTb(src.vtb)), src.vtb[1], src.vtb[2],
               enc.time_base[1], enc.time_base[2])

VideoPts == {src.pkts[i].pts : i \in {j \in 1..Len(src.pkts) : src.pkts[j].st = "v"}}

SetMin(S) == CHOOSE m \in S : \A x \in S : m <= x

\* C6: every frame handed to the encoder carries max(0, pts - startPts)
\* rescaled into the encoder time base, which is never negative; the first
\* frame handed over has timestamp 0 when a source frame sits exactly at
\* start, and otherwise the rebased distance of the first source frame at or
\* after start.
C6_RebasedTimestamps ==
    /\ \A i \in 1..Len(sent) :
          sent[i].ts = RebasedTs(sent[i].pts) /\ sent[i].ts >= 0
    /\ Len(sent) >= 1 =>
          IF \E p \in VideoPts : p * src.vtb[1] * SecDen = req.startE * src.vtb[2]
          THEN sent[1].ts = 0
          ELSE sent[1].ts = RebasedTs(SetMin({p \in VideoPts : AtOrAfterStart(p)}))

\* A range that starts after the beginning of the file: the first frame
\* handed over was rebased to 0 and a later one to a positive timestamp.
C6_Witness ==
    /\ Len(sent) >= 2
    /\ sent[1].pts > 0
    /\ sent[1].ts = 0
    /\ sent[2].ts > 0

\* The timestamps of an audio packet after the missing one was filled in.
FilledPts(p) == IF p.pts = AV_NOPTS_VALUE THEN p.dts ELSE p.pts

FilledDts(p) == IF p.dts = AV_NOPTS_VALUE THEN p.pts ELSE p.dts

\* The packet has a timestamp and its time lies in [start, end].
AudioKept(p) ==
    /\ FilledPts(p) # AV_NOPTS_VALUE
    /\ FilledPts(p) * src.atb[1] * SecDen >= req.startE * src.atb[2]
    /\ FilledPts(p) * src.atb[1] * SecDen <= req.endE * src.atb[2]

\* Subtract the audio start offset, clamp at 0, rescale to the output base.
AudioOutTs(ts) ==
    AvRescaleQ(Max(0, ts - StartInTb(src.atb)), src.atb[1], src.atb[2],
               src.muxA[1], src.muxA[2])

AudioExpected(p) == [pts |-> AudioOutTs(FilledPts(p)), dts |-> AudioOutTs(FilledDts(p))]

AudioExpectedAll ==
    LET kept == SelectSeq(aread, AudioKept)
    IN [i \in 1..Len(kept) |-> AudioExpected(kept[i])]

\* C7: for each packet of the audio stream read while audio is passed
\* through: a missing pts is filled from dts and a missing dts from pts; the
\* packet is dropped if its time is < start or > end or if it has neither
\* timestamp; otherwise both timestamps have the audio start offset
\* subtracted, are clamped to 0, are rescaled to the output audio time base,
\* and the packet is written as it is.
C7_AudioPassthrough ==
    /\ \A i \in 1..Len(aout) : \E j \in 1..Len(aread) :
          AudioKept(aread[j]) /\ aout[i] = AudioExpected(aread[j])
    /\ "write" \notin midFail => aout = AudioExpectedAll

\* A run with a positive start offset that dropped a packet, filled in a
\* missing dts and wrote that packet.
C7_Witness ==
    /\ audio_start_pts > 0
    /\ Len(aout) >= 1
    /\ \E j \in 1..Len(aread) : ~AudioKept(aread[j])
    /\ \E j \in 1..Len(aread) :
          /\ aread[j].dts = AV_NOPTS_VALUE
          /\ AudioKept(aread[j])
          /\ AudioExpected(aread[j]) = aout[Len(aout)]

\* C8: whenever the hardware encoder is unavailable (not only when the
\* lookup by name fails) the run falls back to the software H.264 encoder;
\* it fails for lack of an encoder only when neither exists.
C8_FallbackWheneverUnavailable ==
    /\ (host.hw \in {"absent", "nodevice"} /\ host.sw) =>
           /\ video_encoder = "libx264"
           /\ ("enc_ctx" \in acquired /\ pc = "cleanup") => enc.name = "libx264"
    /\ (host.hw # "unknown" /\ video_encoder = Null) =>
           (host.hw = "absent" /\ ~host.sw)

\* C9: the encoder's width and height are the source's divided by the scale
\* divisor, truncated, for every divisor that reaches transcode (1, 2, 4);
\* 1920x1080 with divisor 4 gives 480x270.
C9_EncoderSize ==
    ("enc_ctx" \in acquired) =>
        /\ req.scale \in {1, 2, 4}
        /\ enc.width * req.scale <= src.width
        /\ src.width < (enc.width + 1) * req.scale
        /\ enc.height * req.scale <= src.height
        /\ src.height < (enc.height + 1) * req.scale
        /\ (src.width = 1920 /\ src.height = 1080 /\ req.scale = 4) =>
               (enc.width = 480 /\ enc.height = 270)

\* The 1920x1080 source configured at a quarter: 480x270.
C9_Witness ==
    /\ "enc_ctx" \in acquired
    /\ src.width = 1920
    /\ src.height = 1080
    /\ req.scale = 4
    /\ enc.width = 480
    /\ enc.height = 270

\* C10: if a decode, encode or packet-write call fails after the header was
\* written, the run stops there and the call returns failure, not success.
C10_MidStreamFailureFails ==
    (pc = "returned" /\ midFail # {}) => result = "failure"

\* C11: on every exit path of the transcode call each handle that was opened
\* is released exactly once: no handle is released twice or while never
\* opened, a released handle is no longer held, and when the call has
\* returned nothing is held and the released handles are exactly the opened
\* ones.
C11_ReleasedExactlyOnce ==
    /\ \A h \in Handles :
          /\ released[h] <= 1
          /\ released[h] = 1 => (h \in acquired /\ h \notin opened)
    /\ pc = "returned" =>
          /\ opened = {}
          /\ \A h \in Handles : released[h] = IF h \in acquired THEN 1 ELSE 0

\* A run that failed after the output file was opened and only part of the
\* frames and packets were allocated has returned with everything released.
C11_Witness ==
    /\ pc = "returned"
    /\ result = "failure"
    /\ "pb" \in acquired
    /\ "frame" \in acquired
    /\ "enc_pkt" \notin acquired
    /\ \A h \in acquired : released[h] = 1

\* What C12 says of every state of a run.
C12_State ==
    /\ (vout # << >> \/ aout # << >>) => header_written
    /\ pc = "trailer" => flushed
    /\ flushed => encq = << >>
    /\ trailer_written => flushed
    /\ (success \/ result = "success") => trailer_written

\* What C12 says of every step of a run.
C12_Step ==
    /\ (pc = "read" /\ pc' # "read") => pc' = "flush"
    /\ (flushed /\ flushed') => sent' = sent

\* C12: packets are written only after the header was written; the loop is
\* left only into the flush, on end of range and on end of stream alike; the
\* flush drains the encoder and no frame is submitted after it; the trailer
\* is written only after the flush and success is returned only after the
\* trailer.
C12_Ordering == [](C12_State) /\ [][C12_Step]_vars

\* A run that stopped on a frame past the end of the range, before the end
\* of the file, drained the encoder and returned success.
C12_Witness ==
    /\ pc = "returned"
    /\ result = "success"
    /\ rd <= Len(src.pkts)
    /\ Len(sent) >= 2
    /\ Len(vout) = Len(sent)
    /\ trailer_written

\* Timestamps, in ms, of the frames the decoder can produce from the file.
FrameTimes ==
    {FrameTimeMs(src.pkts[i].pts) :
        i \in {j \in 1..Len(src.pkts) : src.pkts[j].st = "v" /\ SendPacketOk(j)}}

\* A step in direction d, begun while the player was quiet, has been
\* served: the thread did the seek to its target, and the scan that followed
\* ended without a decode error.
StepServed(d) ==
    /\ stepRec.dir = d
    /\ stepRec.from \in FrameTimes
    /\ hScan.state = "ended"
    /\ hScan.sought = << hScan.target >>
    /\ ~hScan.failed

\* C13: a backward step issued while paused at position P, the timestamp of a
\* frame that has an earlier frame, publishes the latest frame whose
\* timestamp is strictly before P and sets the position to its timestamp.
C13_BackwardStepPrev ==
    (StepServed(0 - 1) /\ \E t \in FrameTimes : t < stepRec.from) =>
        LET prev == SetMax({t \in FrameTimes : t < stepRec.from})
        IN /\ hScan.produced
           /\ hScan.bmp = prev
           /\ hScan.pos = prev

\* C14: a forward step issued while paused at position P, with a frame at or
\* after P + F in the file, publishes the first frame whose timestamp is
\* >= P + F and sets the position to its timestamp.
C14_ForwardStepNext ==
    (StepServed(1) /\ \E t \in FrameTimes : t >= stepRec.from + FrameMs) =>
        LET next == SetMinOf({t \in FrameTimes : t >= stepRec.from + FrameMs})
        IN /\ hScan.produced
           /\ hScan.bmp = next
           /\ hScan.pos = next

\* The backward scan of the step met no frame before its target.
NoEarlierFrame ==
    \A k \in 1..Len(hScan.scanned) : hScan.scanned[k] >= hScan.target

NoPendingRequest ==
    /\ hCalls # << >>
    /\ hCalls[Len(hCalls)].done
    /\ ~g_seekRequested

\* C17: once no seek request is pending, the last seek the decode thread did
\* for a request went to the target of the most recent call of SeekMs; a
\* newer request is never cleared by the servicing of an older one.
C17_LatestSeekHonoured ==
    NoPendingRequest => hLastSeek = ClampMs(hCalls[Len(hCalls)].ms)

\* The last two calls of SeekMs asked for the same position with
\* decodeSingle = true, the second returned before the thread found
\* g_seekRequested set, and no request is pending any more.
SamePairServed ==
    /\ Len(hCalls) = 2
    /\ hCalls[1].done /\ hCalls[2].done
    /\ hCalls[1].ms = hCalls[2].ms
    /\ hCalls[1].single /\ hCalls[2].single
    /\ ~g_seekRequested

\* C16: two calls SeekMs(ms, true) with the same ms, both returned before the
\* decode thread serviced either, cause exactly one seek, to ms.
C16_TwoCallsOneSeek ==
    SamePairServed => hCalls[1].seeks = << hCalls[1].ms >>

\* StepForward or StepBackward has reached its call of SeekMs.
StepPosting ==
    ucmd.kind = "step" /\ upc \in {"seek_target", "seek_req", "seek_single"}

\* C18: the decode thread services a single-frame request only while
\* g_isPlaying is false, and StepForward and StepBackward have set
\* g_isPlaying to false when they post their request.
C18_StepOnlyWhilePaused ==
    /\ InSingleFrameBlock => ~g_isPlaying
    /\ StepPosting => ~g_isPlaying

\* Once continuous playback has met the end of the stream the thread is alive
\* for as long as no stop was asked for.
C19_State ==
    (hEof /\ ~g_playThreadShouldExit) =>
        (nThreads = 1 /\ tpc \notin {"none", "exited"})

\* The step of the thread at the end of the stream (av_read_frame < 0 in
\* continuous playback): g_isPlaying becomes false and the thread goes back
\* to the head of its loop.
C19_Step ==
    (tpc = "play_read" /\ dec.rd > Len(src.pkts) /\ tpc' # tpc) =>
        (~g_isPlaying' /\ tpc' = "loop" /\ nThreads' = nThreads)

\* C19: in continuous playback, when the demuxer reports the end of the
\* stream the decode thread sets g_isPlaying to false by itself and stays
\* alive, idle; it does not exit and no call of StopPlayback is involved.
C19_EndOfStreamPauses == [](C19_State) /\ [][C19_Step]_vars

\* The file was played to its end: the last frame is shown, the player is
\* paused and the thread idles in its loop.
C19_Witness ==
    /\ hEof
    /\ ~g_isPlaying
    /\ ~g_playThreadShouldExit
    /\ nThreads = 1
    /\ tpc = "chk_play"
    /\ upc = "idle"
    /\ g_currentPosMs = SetMax(FrameTimes)

C21_TimeoutDistinguished ==
    stopTimedOut => g_hPlaybackThread

\* The resources of the decode thread: none is released twice or while still
\* held, a thread past its initialisation holds them all, and a thread that
\* has ended holds none.
C22_Resources ==
    /\ \A r \in ThreadResources :
          /\ dec.freed[r] <= 1
          /\ dec.freed[r] = 1 => r \notin dec.held
    /\ tpc \notin {"none", "init", "exited"} =>
          /\ dec.held = ThreadResources
          /\ \A r \in ThreadResources : dec.freed[r] = 0
    /\ tpc = "exited" => dec.held = {}

\* StopPlayback has set the exit flag and a decode thread is running.
C22_ExitRequested ==
    g_playThreadShouldExit /\ tpc \notin {"none", "exited"}

\* C22: after StopPlayback has set the exit flag the decode thread eventually
\* leaves its loop, from continuous playback, from idling and from a
\* single-frame scan alike, releases each resource it holds exactly once and
\* terminates.
C22_ThreadTerminates ==
    [](C22_Resources) /\ (C22_ExitRequested ~> tpc = "exited")

\* The stop arrived during a single-frame scan; the scan ended, the thread
\* released everything once and is gone.
C22_Witness ==
    /\ g_playThreadShouldExit
    /\ tpc = "exited"
    /\ nThreads = 0
    /\ hScan.state = "ended"
    /\ dec.held = {}
    /\ \A r \in ThreadResources : dec.freed[r] = 1

\* The thread ended in its initialisation: av_packet_alloc, the last
\* allocation of lines 770-805, never gave it a packet to release.
InitFailed == tpc = "exited" /\ dec.freed["pkt"] = 0

\* The step the thread takes now is a decode failure: avcodec_send_packet
\* fails on the packet read in continuous playback or in a single-frame scan.
DecodeFailureStep ==
    /\ tpc' # tpc
    /\ \/ /\ tpc = "play_read"
          /\ dec.rd <= Len(src.pkts)
          /\ src.pkts[dec.rd].st = "v"
          /\ ~SendPacketOk(dec.rd)
       \/ /\ tpc = "scan"
          /\ NextVideo(dec.rd) <= Len(src.pkts)
          /\ ~SendPacketOk(NextVideo(dec.rd))

\* After a failed initialisation nothing was published: the slot holds what
\* the UI thread put there and the position is the one set at the drop.
C23_SetupFailurePublishesNothing ==
    InitFailed =>
        /\ g_hFrameBitmap \in {PreviewBitmap, NoBitmap}
        /\ g_currentPosMs = 0

\* A decode failure ends the thread, with everything released.
C23_DecodeFailureExits ==
    DecodeFailureStep =>
        (tpc' = "exited" /\ dec'.held = {} /\ nThreads' = nThreads - 1)

\* C23: a playback error inside the decode thread, in its set-up or as a
\* decode failure during playback, makes the thread release its resources
\* and exit at once; after a failure in the set-up the session never
\* publishes a frame.
C23_ErrorExits ==
    [](C23_SetupFailurePublishesNothing) /\ [][C23_DecodeFailureExits]_vars


\* The decode thread takes a step that reads or writes g_hFrameBitmap or
\* g_currentPosMs: a statement of a publish (lines 880-884, 975-981) or the
\* read of the position for the first seek (line 827).
ThreadAccessStep ==
    /\ tpc' # tpc
    /\ tpc \in {"publish_del", "publish_set", "publish_pos", "play_del",
                "play_set", "play_pos", "first_pos"}

\* The UI thread takes a step that reads or writes g_hFrameBitmap or
\* g_currentPosMs: StartPlayback's release of the bitmap (line 1007) or a read
\* of the position by StepForward or StepBackward (lines 1070, 1080).
UiAccessStep ==
    /\ upc' # upc
    /\ upc \in {"start_cs", "step_pos", "step_pos2"}

C24_Step ==
    /\ ThreadAccessStep => g_csState = "thread"
    /\ UiAccessStep => g_csState = "ui"

\* C24: every read and every write of the published frame handle and of the
\* position counter, by the UI thread and by the decode thread, is made by a
\* thread that holds the critical section g_csState at that moment.
C24_AccessUnderLock == [][C24_Step]_vars


\* A step of the UI thread: a message is taken or a handler advances.
UiStep == uiPlayVars' # uiPlayVars

\* The value of a seek-request field changes: the requested flag, the target,
\* the single-frame flag or the step direction.
SeekFieldsWritten ==
    << g_seekRequested, g_seekTargetMs, g_decodeSingleFrame, g_stepDir >>' #
    << g_seekRequested, g_seekTargetMs, g_decodeSingleFrame, g_stepDir >>

C25_Step ==
    /\ (g_currentPosMs' # g_currentPosMs \/ g_hFrameBitmap' # g_hFrameBitmap)
           => ~UiStep
    /\ (g_isPlaying' # g_isPlaying \/ SeekFieldsWritten) => UiStep

\* C25: the position counter and the published frame are written by the
\* decode thread only; the playing flag and the seek-request fields (requested
\* flag, target, single-frame flag, step direction) by the UI thread only.
C25_SingleWriter == [][C25_Step]_vars


\* C26: a publish installs the new frame before it releases the one published
\* before, so that g_hFrameBitmap never holds a handle on which DeleteObject
\* has been called.
C26_SlotNeverReleased == ~slotReleased


\* The value went from time base a to b and back.
RoundTripDone == calc.fn = "rescale" /\ calc.stage = 2

\* One unit of b is not longer than one unit of a.
NotCoarser(a, b) == b[1] * a[2] <= a[1] * b[2]

RateIsSet(r) == r[1] # 0 /\ r[2] # 0

PathChosen == calc.fn = "path" /\ calc.stage = "done"

\* The k-th name in the order of the claim: <name>_<suffix><ext> for k = 0,
\* <name>_<suffix>-<k><ext> for k >= 1, with RESIZED for an empty suffix, in
\* the directory of the input.
NameInOrder(k) ==
    LET suffix == IF calc.suffixW = "" THEN "RESIZED" ELSE calc.suffixW
        stem == calc.drive \o calc.dir \o calc.fname \o "_" \o suffix
    IN IF k = 0 THEN stem \o calc.ext
       ELSE stem \o "-" \o ToString(k) \o calc.ext

\* C29: the output path chosen by Start Processing does not name an existing
\* file; it is the first of <name>_<suffix><ext>, <name>_<suffix>-1<ext>,
\* <name>_<suffix>-2<ext>, ... that does not exist, where an empty suffix is
\* replaced by RESIZED.
C29_OutputPath ==
    PathChosen =>
        /\ calc.outPath \notin calc.files
        /\ \E k \in 0..(MaxFiles + 1) :
               /\ calc.outPath = NameInOrder(k)
               /\ \A j \in 0..(k - 1) : NameInOrder(j) \in calc.files

C29_Witness ==
    /\ PathChosen
    /\ calc.suffixW = ""
    /\ calc.files = {"C:\\v\\clip_RESIZED.mp4", "C:\\v\\clip_RESIZED-1.mp4",
                     "C:\\v\\clip_RESIZED-3.mp4"}
    /\ calc.outPath = "C:\\v\\clip_RESIZED-2.mp4"

\* The most recent call of SeekMs asked for a single frame, and made all its
\* stores while the thread was inside the single-frame block of an earlier
\* request.
PostedDuringScan ==
    /\ hCalls # << >>
    /\ hCalls[Len(hCalls)].done
    /\ hCalls[Len(hCalls)].single
    /\ hCalls[Len(hCalls)].inScan

\* The UI thread is between messages and the decode thread is at the top of
\* its loop with no request left to look at.
NothingPending ==
    /\ upc = "idle"
    /\ tpc = "loop"
    /\ ~g_seekRequested
    /\ ~g_decodeSingleFrame

\* C30: a single-frame request posted while the scan of an earlier request is
\* in progress is not lost: when nothing is pending any more, the thread has
\* done the seek to the target of the new request and a scan after that seek.
C30_LateRequestServed ==
    (PostedDuringScan /\ NothingPending) =>
        /\ hScan.state = "ended"
        /\ hScan.sought = << ClampMs(hCalls[Len(hCalls)].ms) >>


\* C31: during a backward scan at most one candidate bitmap is alive, and
\* when the scan has ended (line 929 is reached) no candidate is left that
\* was neither published nor released.
C31_NoCandidateLeft ==
    /\ Cardinality(dec.cands) <= 1
    /\ tpc = "scan_end" => dec.cands = {}


\* A step of the decode thread in a single-frame scan that met the end of the
\* stream: the read that fails (line 843) and the statements after the loop.
EofScanStep ==
    /\ tpc' # tpc
    /\ \/ tpc = "scan" /\ dec'.eof
       \/ tpc \in {"scan_end", "scan_end2"} /\ dec.eof

C39_Step ==
    EofScanStep =>
        /\ g_hFrameBitmap' = g_hFrameBitmap
        /\ g_currentPosMs' = g_currentPosMs
        /\ tpc = "scan" => ~dec'.produced
        /\ tpc = "scan_end" => ~g_decodeSingleFrame'
        /\ tpc = "scan_end2" =>
               /\ ~hScan'.produced
               /\ ~hScan'.posted
               /\ g_stepDir' = 0
               /\ tpc' = "loop"

\* C39: a single-frame scan that reaches the end of the stream without a
\* qualifying frame publishes nothing, leaves the published frame and the
\* position as they were, posts no frame-ready message, and clears the
\* request and the step direction before the thread goes back to its loop.
C39_EofScanPublishesNothing == [][C39_Step]_vars

\* A forward step taken at the last frame ended at the end of the stream.
C39_Witness ==
    /\ hScan.state = "ended"
    /\ hScan.eof
    /\ ~hScan.produced
    /\ ~hScan.posted
    /\ stepRec.dir = 1
    /\ tpc = "loop"
    /\ ~g_decodeSingleFrame
    /\ g_stepDir = 0
    /\ ~g_seekRequested
    /\ g_hFrameBitmap # NoBitmap


\* The thread enters the single-frame block (line 837 found the request set
\* and the player paused).
BlockEntered == tpc = "chk_paused" /\ tpc' = "scan_begin"

C38_Step ==
    BlockEntered => ~hCalls[Len(hCalls)].played

\* C38: a single-frame request that was waiting when playback was switched
\* on is discarded: the single-frame block is not entered for it when the
\* player is paused later.
C38_StaleRequestDiscarded == [][C38_Step]_vars


\* The audio packets of the source that lie in [start, end], as they should
\* appear in the output.
AudioInRange ==
    {j \in 1..Len(src.pkts) : src.pkts[j].st = "a" /\ AudioKept(src.pkts[j])}

\* C34: after a run that succeeded with audio passed through and no failed
\* call, every audio packet of the source with a time in [start, end] has
\* been written, wherever it lies among the video packets of the container.
C34_AllAudioInRangeWritten ==
    (result = "success" /\ audio_on /\ midFail = {}) =>
        \A j \in AudioInRange :
            \E i \in 1..Len(aout) : aout[i] = AudioExpected(src.pkts[j])


\* The time in ms of the frame on show at duration / 2: the last frame of
\* the file whose time is not after the middle.
MiddleFrameMs(file) ==
    SetMax({(file.pkts[j].pts * file.vtb[1] * 1000) \div file.vtb[2] :
               j \in {k \in 1..Len(file.pkts) :
                         /\ file.pkts[k].st = "v"
                         /\ file.pkts[k].pts * file.vtb[1] * SecDen * 2
                                <= file.durE * file.vtb[2]}})

\* C35: the preview made when a file is dropped is the frame on show at
\* duration / 2, whatever range the Start and End edits hold and wherever
\* the keyframes lie.
C35_PreviewIsMiddleFrame ==
    (calc.fn = "preview" /\ calc.stage = 2) =>
        calc.hBitmap = MiddleFrameMs(src)



\* A step that passes the handle in the slot to DeleteObject: the publishes
\* of the decode thread, the drop handler, StartPlayback.
ReleaseStep ==
    /\ g_hFrameBitmap # NoBitmap
    /\ \/ tpc \in {"publish_del", "play_del"} /\ tpc' # tpc
       \/ upc \in {"drop_del", "start_cs"} /\ upc' # upc

\* WM_PAINT selects the handle in the slot and draws from it.
DrawStep == upc = "paint_draw" /\ upc' # upc

C32_Step == (ReleaseStep \/ DrawStep) => ~slotReleased

\* C32: however the drop, paint and start-of-playback handlers interleave
\* with the publishes of the decode thread, the handle passed to
\* DeleteObject has not been released before, and the handle WM_PAINT draws
\* has not been released.
C32_NoReleasedHandleUsed == [][C32_Step]_vars


\* The step of WM_DROPFILES that installs what GetVideoInfo found for an
\* accepted file.
DropAccepted == upc = "idle" /\ upc' = "drop_test"

\* The decode thread stores a frame in the published slot.
FramePublished == tpc \in {"publish_set", "play_set"} /\ tpc' # tpc

C33_Step ==
    /\ DropAccepted => tpc' \in {"none", "exited"}
    /\ FramePublished => dec.file.name = src.name

\* C33: when a new file is accepted the decode thread of the session on the
\* previous file has exited before the state of the new file is installed,
\* and every frame published afterwards is a frame of the file that is
\* loaded.
C33_SessionStoppedOnDrop == [][C33_Step]_vars


\* No handler and no publish is in progress.
BetweenOperations == upc = "idle" /\ g_csState = "free"

\* C36: between operations, whenever the published slot holds a frame the
\* position counter is the time of that frame in ms (bitmaps are named by
\* the time of the frame they show).
C36_PositionIsFrameTime ==
    (BetweenOperations /\ g_hFrameBitmap # NoBitmap) =>
        g_currentPosMs = g_hFrameBitmap



\* What the globals say about the current source: g_inputPath, g_vidWidth,
\* g_vidHeight, g_duration, g_videoFPS.
SourceState(s) == << s.name, s.width, s.height, s.durE, s.fps >>

\* WM_DROPFILES found that the dropped file cannot be probed.
ProbeFailed == upc = "idle" /\ upc' = "drop_failed"

\* C37: a drop whose probe fails leaves everything that describes the
\* current source (path, width, height, duration, frame rate) as it was.
C37_FailedProbeKeepsSource ==
    [][ProbeFailed => SourceState(src') = SourceState(src)]_vars

====
